---- MODULE Spec2Model ----
(***************************************************************************)
(* Model of the R5 IoC container (R5/ioc/container.py): the provider       *)
(* registry, the per-call-chain resolution stack, scoped providers,        *)
(* registration-time constructor wiring, aliasing and snapshot/restore.    *)
(***************************************************************************)
EXTENDS Integers, Sequences, FiniteSets, TLC

VARIABLES container_by_type, resolution_stack, provs, insts, saved, aliases,
          last, ops, restoring, chains, wrapped, blocks, http, bg, cfg

vars == <<container_by_type, resolution_stack, provs, insts, saved, aliases,
          last, ops, restoring, chains, wrapped, blocks, http, bg, cfg>>

(***************************************************************************)
(* Bounds of the model.                                                    *)
(***************************************************************************)
MaxProviders == 4
MaxInstances == 3
MaxStack == 4
MaxCalls == 2
MaxOps == 4
MaxChains == 2
MaxWrapped == 1
MaxBlocks == 2
MaxAttempts == 2
MaxRequests == 1
MaxTasks == 2
MaxWorkers == 1
MaxFileKeys == 2

(***************************************************************************)
(* The classes used as keys, and the declared constructor parameter types  *)
(* of each: ServiceA(service_b: ServiceB), ServiceB(service_a: ServiceA)   *)
(* and Config(), which takes none.                                         *)
(***************************************************************************)
Keys == {"ServiceA", "ServiceB", "Config"}

Params(k) ==
    CASE k = "ServiceA" -> <<"ServiceB">>
      [] k = "ServiceB" -> <<"ServiceA">>
      [] k = "SelfReferencing" -> <<"SelfReferencing">>
      [] k = "Server" -> <<"Config">>
      [] OTHER          -> <<>>

Scope == {"singleton", "factory", "resource"}

\* f"{dep_type.__module__}.{dep_type.__qualname__}"
Name(k) == "app." \o k

\* Optional values: <<>> is None, <<v>> is the value v.
None == <<>>
Some(v) == <<v>>

NoProvider == 0
NoInstance == 0

InSeq(x, s) == \E i \in 1..Len(s) : s[i] = x

(***************************************************************************)
(* The registry: an insertion-ordered mapping (a Python dict) from key to  *)
(* provider object, kept as a sequence of <<key, provider id>> entries.    *)
(***************************************************************************)
RegKeys(reg) == {reg[i].key : i \in 1..Len(reg)}

in_provider(reg, k) == k \in RegKeys(reg)

Lookup(reg, k) ==
    IF in_provider(reg, k)
    THEN reg[CHOOSE i \in 1..Len(reg) : reg[i].key = k].pid
    ELSE NoProvider

\* dict.__setitem__: an existing key keeps its position, a new one is appended.
SetItem(reg, k, p) ==
    IF in_provider(reg, k)
    THEN [i \in 1..Len(reg) |-> IF reg[i].key = k THEN [key |-> k, pid |-> p] ELSE reg[i]]
    ELSE Append(reg, [key |-> k, pid |-> p])

\* The list of names built for ProviderNotFoundError.
Available(reg) == [i \in 1..Len(reg) |-> Name(reg[i].key)]

(***************************************************************************)
(* Outcomes of a call: a returned instance or a raised exception.          *)
(***************************************************************************)
Ok(i) == [kind |-> "ok", inst |-> i, type |-> "", chain |-> <<>>, available |-> <<>>]

Raise(kind, type, chain, available) ==
    [kind |-> kind, inst |-> NoInstance, type |-> type, chain |-> chain,
     available |-> available]

(***************************************************************************)
(* Provider objects live in a heap (provs); a provider id is an index into *)
(* it.  A provider holds its scope, the class it constructs, the           *)
(* constructor parameters wired at registration time, the cached instance  *)
(* (Singleton, Resource) and the number of times its factory was invoked   *)
(* (counted up to MaxCalls).  Instances live in a second heap (insts).     *)
(***************************************************************************)
NewProvider(scope, target, wired) ==
    [scope |-> scope, target |-> target, wired |-> wired,
     cache |-> NoInstance, calls |-> 0]

NewInstance(cls, p, deps) ==
    [cls |-> cls, by |-> p, deps |-> deps, counter |-> 0,
     is_connected |-> FALSE, is_closed |-> FALSE]

Min(a, b) == IF a < b THEN a ELSE b

\* list.pop()
Pop(stack) == SubSeq(stack, 1, Len(stack) - 1)

\* The resolution state threaded through one call chain.
State ==
    [reg |-> container_by_type, provs |-> provs, insts |-> insts,
     stack |-> resolution_stack]

\* The exception a constructor body raises when it fails: a RuntimeError,
\* except for Service, whose constructor calls a synchronous injected
\* helper that depends on TestDB and so fails with
\* AsyncProviderInSyncContextError(TestDB).
RaisedBy(target) ==
    IF target = "Service"
    THEN Raise("AsyncProviderInSyncContextError", "TestDB", <<>>, <<>>)
    ELSE Raise("RuntimeError", target, <<>>, <<>>)

RECURSIVE resolve(_, _, _)
RECURSIVE resolve_all(_, _, _, _, _)
RECURSIVE construct(_, _, _, _)
RECURSIVE factory(_, _, _)
RECURSIVE provide(_, _, _)
RECURSIVE factory_late(_, _, _)

\* target_cls(**kwargs): fails with TypeError when a required parameter was
\* not wired; the constructor body raises for the classes in `raising`.
construct(p, kwargs, s, raising) ==
    LET target == s.provs[p].target IN
    IF Len(kwargs) < Len(Params(target))
    THEN [s |-> s, out |-> Raise("TypeError", target, <<>>, <<>>)]
    ELSE IF target \in raising
    THEN [s |-> s, out |-> RaisedBy(target)]
    ELSE [s |-> [s EXCEPT !.insts = Append(@, NewInstance(target, p, kwargs))],
          out |-> Ok(Len(s.insts) + 1)]

\* The kwargs comprehension of the wired factory: the injectable parameters
\* are resolved in declaration order; the first failure propagates.
resolve_all(deps, i, acc, s, raising) ==
    IF i > Len(deps)
    THEN [s |-> s, out |-> Ok(NoInstance), vals |-> acc]
    ELSE LET r == resolve(deps[i], s, raising) IN
         IF r.out.kind # "ok"
         THEN [s |-> r.s, out |-> r.out, vals |-> acc]
         ELSE resolve_all(deps, i + 1, Append(acc, r.out.inst), r.s, raising)

\* Variant: the parameters to resolve are chosen when the factory is invoked.
factory_late(p, s, raising) ==
    LET pr == s.provs[p]
        s1 == [s EXCEPT !.provs[p].calls = Min(@ + 1, MaxCalls)]
        now == SelectSeq(Params(pr.target), LAMBDA dep_type : in_provider(s.reg, dep_type))
        ra == resolve_all(now, 1, <<>>, s1, raising)
    IN  IF ra.out.kind # "ok"
        THEN [s |-> ra.s, out |-> ra.out]
        ELSE construct(p, ra.vals, ra.s, raising)

\* The callable given to the provider class: the wired factory closure, or
\* the class itself when nothing was wired (wired = <<>>).  calls counts the
\* times its body was entered: always for the closure, and for the class
\* unless the call fails on a missing argument before __init__ runs.
factory(p, s, raising) ==
    LET pr == s.provs[p]
        entered == pr.wired # <<>> \/ Params(pr.target) = <<>>
        s1 == [s EXCEPT !.provs[p].calls = IF entered THEN Min(@ + 1, MaxCalls)
                                            ELSE @]
        ra == resolve_all(s1.provs[p].wired, 1, <<>>, s1, raising)
    IN  IF ra.out.kind # "ok"
        THEN [s |-> ra.s, out |-> ra.out]
        ELSE construct(p, ra.vals, ra.s, raising)

\* Variant: no scope keeps the instance it built.
provide_uncached(p, s, raising) == factory(p, s, raising)

\* Variant: every scope keeps the instance it built.
provide_cached(p, s, raising) ==
    IF s.provs[p].cache # NoInstance
    THEN [s |-> s, out |-> Ok(s.provs[p].cache)]
    ELSE LET r == factory(p, s, raising) IN
         IF r.out.kind = "ok"
         THEN [s |-> [r.s EXCEPT !.provs[p].cache = r.out.inst], out |-> r.out]
         ELSE r

\* Variant: a Resource builds on every call, like a Factory.
provide_resource_fresh(p, s, raising) ==
    LET pr == s.provs[p] IN
    IF pr.scope = "singleton" /\ pr.cache # NoInstance
    THEN [s |-> s, out |-> Ok(pr.cache)]
    ELSE LET r == factory(p, s, raising) IN
         IF r.out.kind = "ok" /\ pr.scope # "factory"
         THEN [s |-> [r.s EXCEPT !.provs[p].cache = r.out.inst], out |-> r.out]
         ELSE r

\* provider(): Factory builds on every call; Singleton and Resource build
\* once and keep the instance; a failed build caches nothing.
provide(p, s, raising) ==
    LET pr == s.provs[p] IN
    IF pr.scope # "factory" /\ pr.cache # NoInstance
    THEN [s |-> s, out |-> Ok(pr.cache)]
    ELSE LET r == factory(p, s, raising) IN
         IF r.out.kind = "ok" /\ pr.scope # "factory"
         THEN [s |-> [r.s EXCEPT !.provs[p].cache = r.out.inst], out |-> r.out]
         ELSE r

\* Variant: the error does not list the registered keys.
get_provider_unlisted(reg, provider_type) ==
    IF ~in_provider(reg, provider_type)
    THEN Raise("ProviderNotFoundError", provider_type, <<>>, <<>>)
    ELSE [Ok(NoInstance) EXCEPT !.type = provider_type]

\* Container.get_provider
get_provider(reg, provider_type) ==
    IF ~in_provider(reg, provider_type)
    THEN Raise("ProviderNotFoundError", provider_type, <<>>, Available(reg))
    ELSE [Ok(NoInstance) EXCEPT !.type = provider_type]

\* Container.resolve
resolve(dep_type, s, raising) ==
    LET stack == IF s.stack = None THEN <<>> ELSE s.stack[1]
        dep_name == Name(dep_type)
    IN  IF InSeq(dep_name, stack)
        THEN [s |-> [s EXCEPT !.stack = Some(Append(stack, dep_name))],
              out |-> Raise("CircularDependencyError", dep_type,
                            Append(stack, dep_name), <<>>)]
        ELSE LET s1 == [s EXCEPT !.stack = Some(Append(stack, dep_name))]
                 g == get_provider(s1.reg, dep_type)
                 r == IF g.kind # "ok"
                      THEN [s |-> s1, out |-> g]
                      ELSE provide(Lookup(s1.reg, dep_type), s1, raising)
                 popped == Pop(r.s.stack[1])
             IN  [s |-> [r.s EXCEPT !.stack = IF popped = <<>> THEN None
                                                ELSE Some(popped)],
                  out |-> r.out]

(***************************************************************************)
(* What the caller of the last top-level operation observed: the outcome,  *)
(* the warnings emitted, and for a CircularDependencyError both the        *)
(* message built when it was raised (chain) and its dependency_chain       *)
(* attribute as the caller reads it; the attribute is the stack list       *)
(* object itself, so it holds what the unwinding frames left in it.        *)
(* changed tells whether get_container() differs from before the call.     *)
(***************************************************************************)
Observed(op, key, out, warnings, stack, changed) ==
    [op |-> op, key |-> key, kind |-> out.kind, inst |-> out.inst,
     changed |-> changed,
     type |-> out.type, chain |-> out.chain, available |-> out.available,
     warnings |-> warnings,
     dependency_chain |-> IF out.kind # "CircularDependencyError" THEN <<>>
                          ELSE IF stack = None THEN <<>> ELSE stack[1]]

StackLen(stack) == IF stack = None THEN 0 ELSE Len(stack[1])

(***************************************************************************)
(* Call chains running beside the main one (threads or tasks).  Each has   *)
(* its own context, so its own value of the _resolution_stack context      *)
(* variable: no list (none), a list it created itself (own), or the list   *)
(* object the main context holds (shared), whose content is                *)
(* resolution_stack[1].  frames are the resolve calls in flight in the     *)
(* chain, innermost last; out is what its top-level call returned or       *)
(* raised, with foreign telling that a CircularDependencyError was raised  *)
(* for a key the chain itself was not resolving.                           *)
(***************************************************************************)
Chains == 1..MaxChains

NewChain ==
    [live |-> FALSE, ctx |-> "none", own |-> <<>>, frames |-> <<>>,
     out |-> None, foreign |-> FALSE]

(***************************************************************************)
(* The HTTP client (R5/http/http.py).  An Http object holds its            *)
(* instance-level handlers and the retry policy for the next request; req  *)
(* is the request in flight or the last one finished, with its position    *)
(* (pc: idle, send = awaiting client.send, sleep = awaiting asyncio.sleep, *)
(* done), the locals of _request, the Result returned or the exception     *)
(* raised to the caller, and records kept for the properties: the retry    *)
(* policy and the instance-level handlers the instance held when the       *)
(* request was issued (policy, handlers), whether its caller called retry  *)
(* for it (configured) and whether no other request was in flight when it  *)
(* was issued (alone), and what each attempt did (log):                    *)
(* the stages called, in order, the status of the response received (0     *)
(* when none) and the exception caught.                                    *)
(***************************************************************************)
NoPolicy ==
    [attempts |-> None, when_status |-> None, when_exception |-> None]

NewRequest ==
    [pc |-> "idle", hooks |-> FALSE, raising |-> "none", retry_attempts |-> 0,
     attempt |-> 0, log |-> <<>>, result |-> None, raised |-> None,
     policy |-> NoPolicy, handlers |-> [before |-> <<>>, after |-> <<>>],
     configured |-> FALSE, alone |-> TRUE]

NewAttempt == [events |-> <<>>, status |-> 0, error |-> ""]

\* Http.__init__
NewHttp ==
    [enable |-> TRUE, before_handlers |-> <<>>, after_handlers |-> <<>>,
     retry_attempts |-> None, retry_delay |-> 1, retry_backoff |-> 2,
     retry_when_status |-> None, retry_when_exception |-> None,
     req |-> NewRequest, requests |-> 0,
     other |-> NewRequest, other_requests |-> 0, retry_called |-> FALSE]

\* The sets of classes whose constructor body raises during one call: Config
\* stands for a class whose __init__ may raise.
\* Background: one task group, as anyio keeps it for the tasks started on it.
NewGroup == [cancelled |-> FALSE, exceptions |-> 0, closed |-> FALSE]

\* A task scheduled with start_soon: func is the callable given to add
\* (kind: def or async def; fails: its body raises an Exception;
\* named: it has a __name__, which a functools.partial has not).
NewTask(func, group) ==
    [func |-> func, group |-> group, state |-> "scheduled", runs |-> 0]

\* Background after __init__ and __aenter__; variant "locked" is
\* R5/background/background.py, variant "module" is R5/background.py.
\* callers holds the add calls other tasks have made that have not run yet,
\* in the order the event loop will run them, and overlap the largest
\* number of them there was while the Background had not started.
NewBackground(variant, enable) ==
    [variant |-> variant, enable |-> enable, max_workers |-> MaxWorkers,
     started |-> FALSE, task_group |-> 0, groups |-> <<>>, tasks |-> <<>>,
     borrowed |-> 0, pending |-> None, logged |-> 0, add_raised |-> None,
     ctx |-> "inside", body_exc |-> FALSE, raised |-> None,
     callers |-> <<>>, overlap |-> 0]

\* Configuration: names with their letter case, and Python values with
\* their type (v is the text of the value).
Key(word, case) == [word |-> word, case |-> case]
PyNone == [type |-> "NoneType", v |-> "None"]
PyStr(v) == [type |-> "str", v |-> v]
PyInt(v) == [type |-> "int", v |-> v]
Hint(base, form) == [base |-> base, form |-> form]
EnvNames == {Key("port", "upper"), Key("port", "lower")}

\* A class decorated with @config: the decorator's arguments, the data
\* loaded from the file, one annotated field with its class attribute
\* (None: no attribute), os.environ, and the last instance built.
NewConfig ==
    [env_override |-> TRUE, case_sensitive |-> FALSE, config_data |-> <<>>,
     attr_name |-> Key("port", "lower"), attr_type |-> Hint("int", "plain"),
     default |-> None, environ |-> [k \in EnvNames |-> PyNone],
     instance |-> None]

Raising == {{}, {"Config"}}

Init ==
    /\ container_by_type = <<>>
    /\ resolution_stack = None
    /\ provs = <<>>
    /\ insts = <<>>
    /\ saved = None
    /\ aliases = {}
    /\ last = Observed("init", "", Ok(NoInstance), 0, None, FALSE)
    /\ ops = 0
    /\ restoring = None
    /\ chains = [c \in Chains |-> NewChain]
    /\ wrapped = <<>>
    /\ blocks = <<>>
    /\ http = NewHttp
    /\ bg = NewBackground("locked", TRUE)
    /\ cfg = NewConfig

\* The alias bindings the application made (<<alias, target>>) and has not
\* overwritten since: a binding ends when either key is assigned again.
Unbound(pairs, k) == {pr \in pairs : pr[1] # k /\ pr[2] # k}

\* One more top-level operation issued by the application.
Op == ops < MaxOps /\ ops' = ops + 1

\* Container.resolve called by application code (a top-level call).
Resolve(dep_type, raising) ==
    LET r == resolve(dep_type, State, raising) IN
    /\ Op
    /\ Len(r.s.insts) <= MaxInstances
    /\ StackLen(r.s.stack) <= MaxStack
    /\ provs' = r.s.provs
    /\ insts' = r.s.insts
    /\ resolution_stack' = r.s.stack
    /\ last' = Observed("resolve", dep_type, r.out, 0, r.s.stack, FALSE)
    /\ UNCHANGED <<container_by_type, saved, aliases, restoring,
                   chains, wrapped, blocks, http, bg, cfg>>

\* Container.get_provider called by application code.
GetProvider(provider_type) ==
    /\ Op
    /\ last' = Observed("get_provider", provider_type,
                        get_provider(container_by_type, provider_type), 0,
                        resolution_stack, FALSE)
    /\ UNCHANGED <<container_by_type, resolution_stack, provs, insts, saved,
                   aliases, restoring, chains, wrapped, blocks, http, bg,
                   cfg>>

\* Container.get_provider(t)(): the provider called directly.
CallProvider(provider_type, raising) ==
    LET g == get_provider(container_by_type, provider_type)
        r == IF g.kind # "ok"
             THEN [s |-> State, out |-> g]
             ELSE provide(Lookup(container_by_type, provider_type), State, raising)
    IN  /\ Op
        /\ Len(r.s.insts) <= MaxInstances
        /\ StackLen(r.s.stack) <= MaxStack
        /\ provs' = r.s.provs
        /\ insts' = r.s.insts
        /\ resolution_stack' = r.s.stack
        /\ last' = Observed("call_provider", provider_type, r.out, 0, r.s.stack,
                            FALSE)
        /\ UNCHANGED <<container_by_type, saved, aliases, restoring,
                       chains, wrapped, blocks, http, bg, cfg>>

\* Variant: a key that is present keeps its provider (dict.setdefault).
registry_provider_keep(func_or_cls, scope) ==
    LET injectable_params ==
            SelectSeq(Params(func_or_cls),
                      LAMBDA dep_type : in_provider(container_by_type, dep_type))
    IN  /\ Op
        /\ Len(provs) < MaxProviders
        /\ provs' = Append(provs, NewProvider(scope, func_or_cls, injectable_params))
        /\ container_by_type' =
               IF in_provider(container_by_type, func_or_cls) THEN container_by_type
               ELSE SetItem(container_by_type, func_or_cls, Len(provs) + 1)
        /\ last' = Observed("register", func_or_cls,
                            [Ok(NoInstance) EXCEPT !.type = scope],
                            IF in_provider(container_by_type, func_or_cls) THEN 1 ELSE 0,
                            resolution_stack, TRUE)
        /\ aliases' = Unbound(aliases, func_or_cls)
        /\ UNCHANGED <<resolution_stack, insts, saved, restoring,
                       chains, wrapped, blocks, http, bg, cfg>>

\* Variant: the constructor parameters are not wired.
registry_provider_unwired(func_or_cls, scope) ==
    /\ Op
    /\ Len(provs) < MaxProviders
    /\ provs' = Append(provs, NewProvider(scope, func_or_cls, <<>>))
    /\ container_by_type' = SetItem(container_by_type, func_or_cls, Len(provs) + 1)
    /\ last' = Observed("register", func_or_cls,
                        [Ok(NoInstance) EXCEPT !.type = scope],
                        IF in_provider(container_by_type, func_or_cls) THEN 1 ELSE 0,
                        resolution_stack, TRUE)
    /\ aliases' = Unbound(aliases, func_or_cls)
    /\ UNCHANGED <<resolution_stack, insts, saved, restoring, chains, wrapped, blocks, http, bg,
                   cfg>>

\* Variant: overwriting a key also rebinds the keys that shared its provider.
registry_provider_rebind(func_or_cls, scope) ==
    LET injectable_params ==
            SelectSeq(Params(func_or_cls),
                      LAMBDA dep_type : in_provider(container_by_type, dep_type))
        old == Lookup(container_by_type, func_or_cls)
        set == SetItem(container_by_type, func_or_cls, Len(provs) + 1)
    IN  /\ Op
        /\ Len(provs) < MaxProviders
        /\ provs' = Append(provs, NewProvider(scope, func_or_cls, injectable_params))
        /\ container_by_type' =
               [i \in 1..Len(set) |->
                   IF old # NoProvider /\ set[i].pid = old
                   THEN [key |-> set[i].key, pid |-> Len(provs) + 1]
                   ELSE set[i]]
        /\ last' = Observed("register", func_or_cls,
                            [Ok(NoInstance) EXCEPT !.type = scope],
                            IF in_provider(container_by_type, func_or_cls) THEN 1 ELSE 0,
                            resolution_stack, TRUE)
        /\ aliases' = Unbound(aliases, func_or_cls)
        /\ UNCHANGED <<resolution_stack, insts, saved, restoring,
                       chains, wrapped, blocks, http, bg, cfg>>

\* Container.registry_provider: warns when the key is present, wires the
\* constructor parameters whose type is registered at this moment, and
\* installs a new provider of the chosen scope.
registry_provider(func_or_cls, scope) ==
    LET injectable_params ==
            SelectSeq(Params(func_or_cls),
                      LAMBDA dep_type : in_provider(container_by_type, dep_type))
    IN  /\ Op
        /\ Len(provs) < MaxProviders
        /\ provs' = Append(provs, NewProvider(scope, func_or_cls, injectable_params))
        /\ container_by_type' = SetItem(container_by_type, func_or_cls, Len(provs) + 1)
        /\ last' = Observed("register", func_or_cls,
                            [Ok(NoInstance) EXCEPT !.type = scope],
                            IF in_provider(container_by_type, func_or_cls) THEN 1 ELSE 0,
                            resolution_stack, TRUE)
        /\ aliases' = Unbound(aliases, func_or_cls)
        /\ UNCHANGED <<resolution_stack, insts, saved, restoring,
                       chains, wrapped, blocks, http, bg, cfg>>

\* Variant: the alias gets a provider object of its own, a copy of the
\* target's.
alias_provider_copy(alias, target) ==
    LET g == get_provider(container_by_type, target)
        copy == [provs[Lookup(container_by_type, target)] EXCEPT !.cache = NoInstance,
                                                                 !.calls = 0]
    IN  /\ Op
        /\ g.kind = "ok" => Len(provs) < MaxProviders
        /\ provs' = IF g.kind # "ok" THEN provs ELSE Append(provs, copy)
        /\ container_by_type' =
               IF g.kind # "ok" THEN container_by_type
               ELSE SetItem(container_by_type, alias, Len(provs) + 1)
        /\ aliases' = IF g.kind # "ok" THEN aliases
                      ELSE Unbound(aliases, alias) \cup {<<alias, target>>}
        /\ last' = Observed("alias", alias, g, 0, resolution_stack,
                            container_by_type' # container_by_type)
        /\ UNCHANGED <<resolution_stack, insts, saved, restoring,
                       chains, wrapped, blocks, http, bg, cfg>>

\* Variant: the alias entry is dropped before the target is looked up.
alias_provider_drop(alias, target) ==
    LET g == get_provider(container_by_type, target) IN
    /\ Op
    /\ container_by_type' =
           IF g.kind # "ok"
           THEN SelectSeq(container_by_type, LAMBDA e : e.key # alias)
           ELSE SetItem(container_by_type, alias, Lookup(container_by_type, target))
    /\ aliases' = IF g.kind # "ok" THEN aliases
                  ELSE Unbound(aliases, alias) \cup {<<alias, target>>}
    /\ last' = Observed("alias", alias, g, 0, resolution_stack,
                        container_by_type' # container_by_type)
    /\ UNCHANGED <<resolution_stack, provs, insts, saved, restoring,
                   chains, wrapped, blocks, http, bg, cfg>>

\* Container.alias_provider
alias_provider(alias, target) ==
    LET g == get_provider(container_by_type, target) IN
    /\ Op
    /\ container_by_type' =
           IF g.kind # "ok" THEN container_by_type
           ELSE SetItem(container_by_type, alias, Lookup(container_by_type, target))
    /\ aliases' = IF g.kind # "ok" THEN aliases
                  ELSE Unbound(aliases, alias) \cup {<<alias, target>>}
    /\ last' = Observed("alias", alias, g, 0, resolution_stack,
                        container_by_type' # container_by_type)
    /\ UNCHANGED <<resolution_stack, provs, insts, saved, restoring,
                   chains, wrapped, blocks, http, bg, cfg>>

\* Container.reset
reset ==
    /\ Op
    /\ container_by_type' = <<>>
    /\ resolution_stack' = None
    /\ aliases' = {}
    /\ last' = Observed("reset", "", Ok(NoInstance), 0, None,
                        container_by_type # <<>>)
    /\ UNCHANGED <<provs, insts, saved, restoring, chains, wrapped, blocks, http, bg, cfg>>

\* Container.snapshot: a copy of the mapping, kept by the caller.
snapshot ==
    /\ Op
    /\ saved' = Some(container_by_type)
    /\ last' = Observed("snapshot", "", Ok(NoInstance), 0, resolution_stack, FALSE)
    /\ UNCHANGED <<container_by_type, resolution_stack, provs, insts,
                   aliases, restoring, chains, wrapped, blocks, http, bg,
                   cfg>>

RECURSIVE Update(_, _, _)
\* dict.update: the entries of `other` from position i on are set in reg.
Update(reg, other, i) ==
    IF i > Len(other) THEN reg
    ELSE Update(SetItem(reg, other[i].key, other[i].pid), other, i + 1)

\* Variant: the snapshot is merged into the registry without clearing it.
restore_merge ==
    /\ Op
    /\ saved # None
    /\ container_by_type' = Update(container_by_type, saved[1], 1)
    /\ resolution_stack' = None
    /\ aliases' = {}
    /\ last' = Observed("restore", "", Ok(NoInstance), 0, None,
                        container_by_type' # container_by_type)
    /\ UNCHANGED <<provs, insts, saved, restoring, chains, wrapped, blocks, http, bg, cfg>>

\* Container.restore with the snapshot the caller kept.
restore ==
    /\ Op
    /\ saved # None
    /\ container_by_type' = Update(<<>>, saved[1], 1)
    /\ resolution_stack' = None
    /\ aliases' = {}
    /\ last' = Observed("restore", "", Ok(NoInstance), 0, None,
                        container_by_type # saved[1])
    /\ UNCHANGED <<provs, insts, saved, restoring, chains, wrapped, blocks, http, bg, cfg>>

\* Application code mutating an instance it holds (instance.counter = 1).
Mutate(i) ==
    /\ Op
    /\ insts[i].counter = 0
    /\ insts' = [insts EXCEPT ![i].counter = 1]
    /\ last' = Observed("mutate", "", Ok(i), 0, resolution_stack, FALSE)
    /\ UNCHANGED <<container_by_type, resolution_stack, provs, saved,
                   aliases, restoring, chains, wrapped, blocks, http, bg,
                   cfg>>

Next ==
    \/ \E k \in Keys, raising \in Raising : Resolve(k, raising)
    \/ \E k \in Keys : GetProvider(k)
    \/ \E k \in Keys, raising \in Raising : CallProvider(k, raising)
    \/ \E k \in Keys, scope \in Scope : registry_provider(k, scope)
    \/ \E a \in Keys : \E t \in Keys \ {a} : alias_provider(a, t)
    \/ reset
    \/ snapshot
    \/ restore
    \/ \E i \in 1..Len(insts) : Mutate(i)

Spec == Init /\ [][Next]_vars

(***************************************************************************)
(* Helpers for the properties.                                             *)
(***************************************************************************)
ProviderOf(k) == Lookup(container_by_type, k)

BuiltBy(heap, p) == {i \in 1..Len(heap) : heap[i].by = p}

IsResolveOk(l) == l.op \in {"resolve", "call_provider"} /\ l.kind = "ok"

(***************************************************************************)
(* C1: after any top-level Container.resolve call finishes, with an        *)
(* instance or with an error, the resolution stack of the call chain is    *)
(* empty (the context variable is None again).                             *)
(***************************************************************************)
C1_StackEmptyAfterResolve ==
    last.op = "resolve" => resolution_stack = None

(***************************************************************************)
(* C2: with ServiceA (parameter of type ServiceB) and ServiceB (parameter  *)
(* of type ServiceA) both registered, resolving either fails with          *)
(* CircularDependencyError whose chain holds both keys in traversal order. *)
(***************************************************************************)
C2_MutualDependencyIsCircular ==
    ( /\ last.op = "resolve"
      /\ last.key \in {"ServiceA", "ServiceB"}
      /\ \A k \in {"ServiceA", "ServiceB"} :
            /\ in_provider(container_by_type, k)
            /\ provs[ProviderOf(k)].target = k )
    => /\ last.kind = "CircularDependencyError"
       /\ InSeq(Name("ServiceA"), last.chain)
       /\ InSeq(Name("ServiceB"), last.chain)

(***************************************************************************)
(* C3: the CircularDependencyError the top-level caller receives has a     *)
(* dependency_chain equal to the stack at the moment of detection followed *)
(* by the repeated key (the chain the error was built with).               *)
(***************************************************************************)
C3_ChainIsTraversalPath ==
    last.kind = "CircularDependencyError" => last.dependency_chain = last.chain

C5_FactoryFresh ==
    [][ ( /\ IsResolveOk(last')
          /\ provs'[Lookup(container_by_type', last'.key)].scope = "factory" )
        => LET p == Lookup(container_by_type', last'.key) IN
           /\ last'.inst > Len(insts)
           /\ last'.inst <= Len(insts')
           /\ insts'[last'.inst].counter = 0
           /\ BuiltBy(insts', p) = BuiltBy(insts, p) \cup {last'.inst}
           /\ provs'[p].calls = Min(provs[p].calls + 1, MaxCalls)
           /\ provs'[p].cache = NoInstance ]_vars

\* A second instance of a Factory key is returned after the first was mutated.
C5_Witness ==
    /\ IsResolveOk(last)
    /\ provs[ProviderOf(last.key)].scope = "factory"
    /\ \E i \in BuiltBy(insts, ProviderOf(last.key)) :
          i # last.inst /\ insts[i].counter = 1

(***************************************************************************)
(* C6: resolve and get_provider of a key absent from the registry fail     *)
(* with ProviderNotFoundError carrying the key and one name per registered *)
(* key; the registry, the providers' caches and the instances are          *)
(* unchanged by the failed call.                                           *)
(***************************************************************************)
C6_ProviderNotFound ==
    [][ ( /\ last'.op \in {"resolve", "get_provider"}
          /\ ~in_provider(container_by_type, last'.key) )
        => /\ last'.kind = "ProviderNotFoundError"
           /\ last'.type = last'.key
           /\ Len(last'.available) = Cardinality(RegKeys(container_by_type))
           /\ \A k \in Keys : in_provider(container_by_type, k)
                                 <=> InSeq(Name(k), last'.available)
           /\ container_by_type' = container_by_type
           /\ provs' = provs
           /\ insts' = insts ]_vars

\* An absent key was resolved while other keys were registered.
C6_Witness ==
    /\ last.op = "resolve"
    /\ last.kind = "ProviderNotFoundError"
    /\ Len(last.available) >= 2

(***************************************************************************)
(* C7: after alias_provider(A, B) with B registered as a Singleton,        *)
(* resolve(A) and resolve(B) return the same instance, in whichever order  *)
(* and however many times: every successful resolve of either key returns  *)
(* the one instance built by B's provider.                                 *)
(***************************************************************************)
C7_AliasSameInstance ==
    \A pr \in aliases :
        ( /\ provs[ProviderOf(pr[2])].scope = "singleton"
          /\ last.op = "resolve"
          /\ last.kind = "ok"
          /\ last.key \in {pr[1], pr[2]} )
        => /\ insts[last.inst].by = ProviderOf(pr[2])
           /\ BuiltBy(insts, ProviderOf(pr[2])) = {last.inst}

\* The alias key was resolved and returned an instance of the target class.
C7_Witness ==
    \E pr \in aliases :
        /\ provs[ProviderOf(pr[2])].scope = "singleton"
        /\ last.op = "resolve"
        /\ last.kind = "ok"
        /\ last.key = pr[1]
        /\ insts[last.inst].cls = pr[2]

(***************************************************************************)
(* C8: alias_provider(A, B) with B not registered fails with               *)
(* ProviderNotFoundError for B and leaves the registry unchanged.          *)
(***************************************************************************)
C8_AliasUnregisteredTarget ==
    [][ ( /\ last'.op = "alias"
          /\ ~in_provider(container_by_type, last'.type) )
        => /\ last'.kind = "ProviderNotFoundError"
           /\ last'.available = Available(container_by_type)
           /\ container_by_type' = container_by_type
           /\ provs' = provs ]_vars

\* The alias key already had a provider when the call failed.
C8_Witness ==
    /\ last.op = "alias"
    /\ last.kind = "ProviderNotFoundError"
    /\ in_provider(container_by_type, last.key)

(***************************************************************************)
(* C9: registering a key that is already registered succeeds with exactly  *)
(* one warning and replaces the provider by a new one of the given scope   *)
(* with nothing cached; the key keeps a single entry, every other entry is *)
(* unchanged, and every later successful resolve returns an instance built *)
(* by the provider the key is bound to at that moment.                     *)
(***************************************************************************)
C9_Overwrite ==
    [][ /\ ( /\ last'.op = "register"
             /\ in_provider(container_by_type, last'.key) )
           => /\ last'.kind = "ok"
              /\ last'.warnings = 1
              /\ Lookup(container_by_type', last'.key) = Len(provs) + 1
              /\ Len(provs') = Len(provs) + 1
              /\ provs'[Len(provs')].scope = last'.type
              /\ provs'[Len(provs')].target = last'.key
              /\ provs'[Len(provs')].cache = NoInstance
              /\ Len(container_by_type') = Len(container_by_type)
              /\ \A i \in 1..Len(container_by_type) :
                    /\ container_by_type'[i].key = container_by_type[i].key
                    /\ container_by_type[i].key # last'.key
                          => container_by_type'[i] = container_by_type[i]
        /\ ( last'.op = "resolve" /\ last'.kind = "ok" )
           => insts'[last'.inst].by = Lookup(container_by_type', last'.key)
      ]_vars

\* A key resolved under its first provider was re-registered and resolved
\* again: the second instance comes from the new provider.
C9_Witness ==
    /\ last.op = "resolve"
    /\ last.kind = "ok"
    /\ \E i \in 1..Len(insts) :
          /\ insts[i].cls = insts[last.inst].cls
          /\ insts[i].by < insts[last.inst].by
          /\ provs[insts[i].by].cache = i

(***************************************************************************)
(* C10: after restore(S) the registry's key-to-provider mapping is exactly *)
(* the mapping at the time S was taken, whatever register, alias and reset *)
(* operations came in between, and also when S is restored again later.    *)
(***************************************************************************)
C10_RestoreExact ==
    last.op = "restore" => container_by_type = saved[1]

\* A non-empty snapshot is restored over a registry that had changed since.
C10_Witness ==
    /\ last.op = "restore"
    /\ last.changed
    /\ saved[1] # <<>>

(***************************************************************************)
(* Container.restore running in one thread while another thread reads the  *)
(* registry.  restore is three statements and the interpreter may switch   *)
(* threads between any two of them, so each statement is one step.         *)
(* restoring holds the position of the thread inside restore, the registry *)
(* as it was when restore was called (pre), the snapshot passed to it      *)
(* (snap) and what a reader in another thread observed meanwhile (read).   *)
(***************************************************************************)
\* cls._container_by_type.clear()
restore_clear ==
    /\ Op
    /\ saved # None
    /\ restoring = None
    /\ restoring' = Some([pre |-> container_by_type, snap |-> saved[1],
                          at |-> "update", read |-> None])
    /\ container_by_type' = <<>>
    /\ aliases' = {}
    /\ UNCHANGED <<resolution_stack, provs, insts, saved, last,
                   chains, wrapped, blocks, http, bg, cfg>>

\* cls._container_by_type.update(snapshot)
restore_update ==
    /\ restoring # None
    /\ restoring[1].at = "update"
    /\ container_by_type' = Update(container_by_type, restoring[1].snap, 1)
    /\ restoring' = Some([restoring[1] EXCEPT !.at = "set"])
    /\ UNCHANGED <<resolution_stack, provs, insts, saved, aliases, last, ops,
                   chains, wrapped, blocks, http, bg, cfg>>

\* cls._resolution_stack.set(None), after which restore returns.
restore_set ==
    /\ restoring # None
    /\ restoring[1].at = "set"
    /\ resolution_stack' = None
    /\ restoring' = None
    /\ last' = Observed("restore", "", Ok(NoInstance), 0, None,
                        container_by_type # restoring[1].pre)
    /\ UNCHANGED <<container_by_type, provs, insts, saved, aliases, ops,
                   chains, wrapped, blocks, http, bg, cfg>>

\* Container.get_provider called in another thread while restore runs.
Reader(provider_type) ==
    /\ Op
    /\ restoring # None
    /\ restoring' =
           Some([restoring[1] EXCEPT
                   !.read = Some([key |-> provider_type,
                                  out |-> get_provider(container_by_type,
                                                       provider_type)])])
    /\ UNCHANGED <<container_by_type, resolution_stack, provs, insts,
                   saved,
                   aliases, last, chains, wrapped, blocks, http, bg, cfg>>

NextRestore ==
    \/ \E k \in Keys, scope \in Scope : registry_provider(k, scope)
    \/ snapshot
    \/ restore_clear
    \/ restore_update
    \/ restore_set
    \/ \E k \in Keys : Reader(k)

SpecRestore == Init /\ [][NextRestore]_vars

(***************************************************************************)
(* C11: restore(S) is atomic for concurrent readers: a get_provider (or    *)
(* in_provider, or resolve) running in another thread while restore        *)
(* executes never finds a key missing that is present both in the          *)
(* registry restore was called on and in S.                                *)
(***************************************************************************)
C11_RestoreAtomic ==
    (restoring # None /\ restoring[1].read # None) =>
        LET rd == restoring[1].read[1] IN
        ( /\ in_provider(restoring[1].pre, rd.key)
          /\ in_provider(restoring[1].snap, rd.key) )
        => rd.out.kind = "ok"

(***************************************************************************)
(* Concurrent call chains.  A chain is started from the main context with  *)
(* a copy of that context (asyncio tasks, anyio to_thread.run_sync): the   *)
(* copy holds the same list object when the main context variable is not   *)
(* None.  Threads and tasks interleave between the statements of resolve,  *)
(* so a chain runs resolve in steps: entry (up to the provider call), the  *)
(* construction of the instance, and the finally block.                    *)
(***************************************************************************)
\* The part of the state one chain works on.
ChainState(c) ==
    [ch |-> chains[c],
     shared |-> IF resolution_stack = None THEN <<>> ELSE resolution_stack[1],
     provs |-> provs, insts |-> insts]

\* Container.resolve from its first statement to the provider call: the
\* stack is fetched (created when None), the key is looked for in it and
\* appended, and the provider is looked up; a Singleton or Resource that
\* holds an instance returns it at once.  A frame is opened unless the
\* CircularDependencyError is raised, which happens before the try block.
resolve_enter(cs, dep_type) ==
    LET ch0 == IF cs.ch.ctx = "none" THEN [cs.ch EXCEPT !.ctx = "own"] ELSE cs.ch
        stack == IF ch0.ctx = "shared" THEN cs.shared ELSE ch0.own
        dep_name == Name(dep_type)
        pushed == Append(stack, dep_name)
        ch1 == IF ch0.ctx = "shared" THEN ch0 ELSE [ch0 EXCEPT !.own = pushed]
        shared1 == IF ch0.ctx = "shared" THEN pushed ELSE cs.shared
        n == Len(ch1.frames)
    IN  IF InSeq(dep_name, stack)
        THEN LET exc == Raise("CircularDependencyError", dep_type, pushed, <<>>)
                 foreign == \A i \in 1..n : ch1.frames[i].key # dep_type
             IN  [cs EXCEPT
                    !.shared = shared1,
                    !.ch = IF n = 0
                           THEN [ch1 EXCEPT !.out = Some(exc),
                                            !.foreign = @ \/ foreign]
                           ELSE [ch1 EXCEPT !.frames[n].ret = Some(exc),
                                            !.foreign = @ \/ foreign]]
        ELSE LET g == get_provider(container_by_type, dep_type)
                 p == Lookup(container_by_type, dep_type)
                 cached == /\ g.kind = "ok"
                           /\ cs.provs[p].scope # "factory"
                           /\ cs.provs[p].cache # NoInstance
                 ret == IF g.kind # "ok" THEN Some(g)
                        ELSE IF cached THEN Some(Ok(cs.provs[p].cache))
                        ELSE None
                 entered == /\ ret = None
                            /\ ( cs.provs[p].wired # <<>>
                                 \/ Params(cs.provs[p].target) = <<>> )
             IN  [cs EXCEPT
                    !.shared = shared1,
                    !.ch = [ch1 EXCEPT
                              !.frames = Append(@, [key |-> dep_type, pid |-> p,
                                                    next |-> 1, vals |-> <<>>,
                                                    ret |-> ret])],
                    !.provs = IF entered
                              THEN [@ EXCEPT ![p].calls = Min(@ + 1, MaxCalls)]
                              ELSE @]

\* The chain's step written back: the shared list object is the one the
\* main context variable refers to.
Commit(c, cs) ==
    /\ Len(cs.shared) <= MaxStack
    /\ Len(cs.ch.own) <= MaxStack
    /\ Len(cs.insts) <= MaxInstances
    /\ chains' = [chains EXCEPT ![c] = cs.ch]
    /\ resolution_stack' = IF resolution_stack = None THEN None
                           ELSE Some(cs.shared)
    /\ provs' = cs.provs
    /\ insts' = cs.insts
    /\ UNCHANGED <<container_by_type, saved, aliases, last, restoring, wrapped, blocks, http,
                   bg, cfg>>

\* A thread or task is started from the main context with a copy of it.
Spawn(c) ==
    /\ ~chains[c].live
    /\ \A d \in 1..(c - 1) : chains[d].live
    /\ chains' = [chains EXCEPT
                    ![c] = [NewChain EXCEPT
                              !.live = TRUE,
                              !.ctx = IF resolution_stack = None THEN "none"
                                      ELSE "shared"]]
    /\ UNCHANGED <<container_by_type, resolution_stack, provs, insts, saved,
                   aliases, last, ops, restoring, wrapped, blocks, http, bg,
                   cfg>>

\* Container.resolve called by the main context before it starts any chain.
MainResolve(dep_type) ==
    /\ \A c \in Chains : ~chains[c].live
    /\ Resolve(dep_type, {})

\* A top-level Container.resolve call of chain c, up to the provider call.
ChainResolve(c, dep_type) ==
    /\ Op
    /\ chains[c].live
    /\ chains[c].frames = <<>>
    /\ chains[c].out = None
    /\ Commit(c, resolve_enter(ChainState(c), dep_type))

\* The wired factory of the innermost frame resolves its next parameter.
ChainResolveDep(c) ==
    LET n == Len(chains[c].frames)
        f == chains[c].frames[n]
    IN  /\ n > 0
        /\ f.ret = None
        /\ f.next <= Len(provs[f.pid].wired)
        /\ Commit(c, resolve_enter(
                         [ChainState(c) EXCEPT !.ch.frames[n].next = @ + 1],
                         provs[f.pid].wired[f.next]))
        /\ UNCHANGED ops

\* Variant: an instance that is already stored is kept (first writer wins).
ChainConstruct_keep_first(c) ==
    LET n == Len(chains[c].frames)
        f == chains[c].frames[n]
        r == construct(f.pid, f.vals, State, {})
        cs == ChainState(c)
    IN  /\ n > 0
        /\ f.ret = None
        /\ f.next > Len(provs[f.pid].wired)
        /\ Commit(c, [cs EXCEPT
                        !.ch.frames[n].ret = Some(r.out),
                        !.insts = r.s.insts,
                        !.provs = IF r.out.kind = "ok"
                                     /\ provs[f.pid].scope # "factory"
                                     /\ provs[f.pid].cache = NoInstance
                                  THEN [@ EXCEPT ![f.pid].cache = r.out.inst]
                                  ELSE @])
        /\ UNCHANGED ops

\* target_cls(**kwargs) of the innermost frame; Singleton and Resource keep
\* the instance.
ChainConstruct(c) ==
    LET n == Len(chains[c].frames)
        f == chains[c].frames[n]
        r == construct(f.pid, f.vals, State, {})
        cs == ChainState(c)
    IN  /\ n > 0
        /\ f.ret = None
        /\ f.next > Len(provs[f.pid].wired)
        /\ Commit(c, [cs EXCEPT
                        !.ch.frames[n].ret = Some(r.out),
                        !.insts = r.s.insts,
                        !.provs = IF r.out.kind = "ok"
                                     /\ provs[f.pid].scope # "factory"
                                  THEN [@ EXCEPT ![f.pid].cache = r.out.inst]
                                  ELSE @])
        /\ UNCHANGED ops

\* The finally block of the innermost frame: stack.pop(), which raises
\* IndexError on an empty list, then the context variable of this chain is
\* set to None if the list is empty; the frame's outcome goes to its caller.
ChainFinally(c) ==
    LET cs == ChainState(c)
        n == Len(chains[c].frames)
        f == chains[c].frames[n]
        stack == IF cs.ch.ctx = "shared" THEN cs.shared ELSE cs.ch.own
        popped == Pop(stack)
        out == IF stack = <<>> THEN Raise("IndexError", f.key, <<>>, <<>>)
               ELSE f.ret[1]
        ch1 == [cs.ch EXCEPT !.ctx = IF popped = <<>> THEN "none" ELSE @,
                             !.own = IF cs.ch.ctx = "own" THEN popped ELSE @,
                             !.frames = SubSeq(@, 1, n - 1)]
        ch2 == IF n = 1 THEN [ch1 EXCEPT !.out = Some(out)]
               ELSE IF out.kind = "ok"
               THEN [ch1 EXCEPT !.frames[n - 1].vals = Append(@, out.inst)]
               ELSE [ch1 EXCEPT !.frames[n - 1].ret = Some(out)]
    IN  /\ n > 0
        /\ f.ret # None
        /\ Commit(c, [cs EXCEPT
                        !.ch = ch2,
                        !.shared = IF cs.ch.ctx = "shared" THEN popped ELSE @])
        /\ UNCHANGED ops

\* The application after start-up: ServiceA, ServiceB and Config were
\* registered, and ServiceA registered again once ServiceB was known, so
\* that ServiceA and ServiceB are wired to each other.
InitChains ==
    /\ \E scope \in Scope :
          provs = << NewProvider(scope, "ServiceA", <<>>),
                     NewProvider(scope, "ServiceB", <<"ServiceA">>),
                     NewProvider(scope, "ServiceA", <<"ServiceB">>),
                     NewProvider(scope, "Config", <<>>) >>
    /\ container_by_type = << [key |-> "ServiceA", pid |-> 3],
                              [key |-> "ServiceB", pid |-> 2],
                              [key |-> "Config", pid |-> 4] >>
    /\ resolution_stack = None
    /\ insts = <<>>
    /\ saved = None
    /\ aliases = {}
    /\ last = Observed("register", "Config", Ok(NoInstance), 0, None, TRUE)
    /\ ops = 0
    /\ restoring = None
    /\ chains = [c \in Chains |-> NewChain]
    /\ wrapped = <<>>
    /\ blocks = <<>>
    /\ http = NewHttp
    /\ bg = NewBackground("locked", TRUE)
    /\ cfg = NewConfig

NextChains ==
    \/ \E k \in Keys : MainResolve(k)
    \/ \E c \in Chains : Spawn(c)
    \/ \E c \in Chains, k \in Keys : ChainResolve(c, k)
    \/ \E c \in Chains : ChainResolveDep(c)
    \/ \E c \in Chains : ChainConstruct(c)
    \/ \E c \in Chains : ChainFinally(c)

SpecChains == InitChains /\ [][NextChains]_vars

(***************************************************************************)
(* C12: top-level resolve calls made from different threads or tasks never *)
(* observe each other's in-flight stacks: no chain gets a                  *)
(* CircularDependencyError for a key it was not itself resolving, and a    *)
(* cycle within one chain is detected at its first repeated key, so no     *)
(* chain ever has the same key in flight twice.                            *)
(***************************************************************************)
C12_ChainsIsolated ==
    \A c \in Chains :
        /\ ~chains[c].foreign
        /\ \A i, j \in 1..Len(chains[c].frames) :
              i # j => chains[c].frames[i].key # chains[c].frames[j].key

(***************************************************************************)
(* The inject decorator (R5/ioc/injection.py).                             *)
(*                                                                         *)
(* The classes it is used with here: Config, whose constructor may raise;  *)
(* SelfReferencing(self_ref: SelfReferencing); TestDB, a class with an     *)
(* asynchronous life cycle, for which a Resource provider returns an       *)
(* awaitable; and Service, whose constructor may fail in a synchronous     *)
(* injected helper.                                                        *)
(* The wrapped callables: each parameter has a name, the class             *)
(* of its annotation (str and int are never registered), whether the       *)
(* annotation is Optional[...] and whether it has a default value.         *)
(***************************************************************************)
InjectKeys == {"Config", "SelfReferencing", "TestDB", "Service"}

AsyncResources == {"TestDB"}

Param(name, type, optional, default) ==
    [name |-> name, type |-> type, optional |-> optional, default |-> default]

Func(name, params, is_async) ==
    [name |-> name, params |-> params, is_async |-> is_async]

Funcs ==
    { Func("handler", << Param("p1", "str", FALSE, FALSE),
                         Param("s1", "Config", FALSE, FALSE),
                         Param("p2", "int", FALSE, FALSE) >>, FALSE),
      Func("optional_handler", << Param("service", "Config", TRUE, FALSE) >>, FALSE),
      Func("default_handler", << Param("service", "Config", FALSE, TRUE) >>, FALSE),
      Func("self_handler", << Param("service", "SelfReferencing", FALSE, FALSE) >>,
           FALSE),
      Func("service_handler", << Param("service", "Service", FALSE, FALSE) >>,
           FALSE),
      Func("sync_query", << Param("db", "TestDB", FALSE, FALSE) >>, FALSE),
      Func("query_service", << Param("db", "TestDB", FALSE, FALSE) >>, TRUE) }

(***************************************************************************)
(* The values a parameter can hold, told apart by where they come from:    *)
(* the caller's i-th positional argument, the caller's keyword argument,   *)
(* the parameter's default, None, or an instance returned by               *)
(* Container.resolve (pending while it is an awaitable not yet awaited).   *)
(***************************************************************************)
Value(src, pos, name, inst, pending) ==
    [src |-> src, pos |-> pos, name |-> name, inst |-> inst, pending |-> pending]

Arg(i) == Value("arg", i, "", NoInstance, FALSE)
Kw(name) == Value("kw", 0, name, NoInstance, FALSE)
Default(name) == Value("default", 0, name, NoInstance, FALSE)
NoneValue == Value("none", 0, "", NoInstance, FALSE)
Resolved(i, pending) == Value("resolved", 0, "", i, pending)

\* inspect.isawaitable(provider_instance)
isawaitable(s, i) ==
    /\ s.insts[i].cls \in AsyncResources
    /\ s.provs[s.insts[i].by].scope = "resource"

\* Variant: a registered class is planned like an absent optional one.
deps_to_inject_absent(func, reg) ==
    LET picked == SelectSeq(func.params,
                            LAMBDA q : in_provider(reg, q.type) \/ q.optional)
    IN  [i \in 1..Len(picked) |-> [name |-> picked[i].name, dep_type |-> None]]

\* Variant: only the parameters whose class is registered are planned.
deps_to_inject_registered(func, reg) ==
    LET picked == SelectSeq(func.params, LAMBDA q : in_provider(reg, q.type))
    IN  [i \in 1..Len(picked) |->
            [name |-> picked[i].name, dep_type |-> Some(picked[i].type)]]

\* The loop of inject that builds deps_to_inject (an ordered dict, kept as
\* a sequence of entries): a parameter whose class is registered now maps
\* to that class, an Optional one whose class is not registered maps to
\* None, any other parameter is left out.
deps_to_inject(func, reg) ==
    LET picked == SelectSeq(func.params,
                            LAMBDA q : in_provider(reg, q.type) \/ q.optional)
    IN  [i \in 1..Len(picked) |->
            [name |-> picked[i].name,
             dep_type |-> IF in_provider(reg, picked[i].type)
                          THEN Some(picked[i].type) ELSE None]]

DepNames(deps) == {deps[i].name : i \in 1..Len(deps)}

\* new_sig: the kind of each parameter in the signature the wrapper shows;
\* a parameter left to the caller after the first injectable one becomes
\* keyword-only.
new_sig(func, deps) ==
    [i \in 1..Len(func.params) |->
        IF /\ func.params[i].name \notin DepNames(deps)
           /\ \E j \in 1..i : func.params[j].name \in DepNames(deps)
        THEN "KEYWORD_ONLY" ELSE "POSITIONAL_OR_KEYWORD"]

\* sig.bind_partial(*args, **kwargs) on the original signature: nargs
\* positional arguments bind the first nargs parameters, kws are the names
\* passed by keyword.  It fails when there are too many positional
\* arguments or a parameter gets two values.
bind_fails(func, nargs, kws) ==
    \/ nargs > Len(func.params)
    \/ \E i \in 1..nargs : func.params[i].name \in kws

\* Variant: what the caller passed is not looked at.
arguments_defaults(func, nargs, kws) ==
    {func.params[i].name : i \in {j \in 1..Len(func.params) :
                                     func.params[j].default}}

\* bound_args.arguments after apply_defaults()
arguments(func, nargs, kws) ==
    {func.params[i].name : i \in 1..Min(nargs, Len(func.params))}
        \cup kws
        \cup {func.params[i].name : i \in {j \in 1..Len(func.params) :
                                             func.params[j].default}}

\* What a wrapper call has done so far: the resolution state, the outcome,
\* the injected dict (a sequence of entries), the keys Container.resolve
\* was called with, the exception a resolve raised (raised, with the
\* parameter it was for), the keys whose resolution returned an awaitable,
\* and the attributes of a DependencyInjectionError.
Injection(s) ==
    [s |-> s, out |-> Ok(NoInstance), injected |-> <<>>, resolved |-> <<>>,
     raised |-> None, awaitables |-> <<>>,
     param_name |-> "", func_name |-> "", original_error |-> None]

RECURSIVE inject_dependencies(_, _, _, _, _)
RECURSIVE inject_resolved(_, _, _, _, _, _)
\* Variant: an awaitable is injected whatever the kind of the callable.
inject_resolved_unchecked(w, i, bound, acc, raising, r) ==
    LET d == w.deps_to_inject[i]
        dep_type == d.dep_type[1]
        acc1 == [acc EXCEPT !.s = r.s, !.resolved = Append(@, dep_type)]
    IN  IF r.out.kind = "AsyncProviderInSyncContextError"
        THEN [acc1 EXCEPT !.out = r.out,
                          !.raised = Some([param_name |-> d.name, error |-> r.out])]
        ELSE IF r.out.kind # "ok"
        THEN [acc1 EXCEPT
                !.out = Raise("DependencyInjectionError", dep_type, <<>>, <<>>),
                !.raised = Some([param_name |-> d.name, error |-> r.out]),
                !.param_name = d.name,
                !.func_name = w.func.name,
                !.original_error = Some(r.out)]
        ELSE inject_dependencies(
                 w, i + 1, bound,
                 [acc1 EXCEPT
                    !.awaitables = IF isawaitable(r.s, r.out.inst)
                                   THEN Append(@, dep_type) ELSE @,
                    !.injected = Append(@, [name |-> d.name,
                                            value |-> Resolved(
                                                r.out.inst,
                                                isawaitable(r.s, r.out.inst))])],
                 raising)

\* The part of _inject_dependencies after Container.resolve(dep_type) ended
\* with r: an AsyncProviderInSyncContextError is raised again as it is, any
\* other exception is wrapped in DependencyInjectionError; an awaitable
\* result is an AsyncProviderInSyncContextError for a synchronous callable;
\* otherwise the result is injected and the loop goes on.
inject_resolved(w, i, bound, acc, raising, r) ==
    LET d == w.deps_to_inject[i]
        dep_type == d.dep_type[1]
        acc1 == [acc EXCEPT !.s = r.s, !.resolved = Append(@, dep_type)]
        acc2 == [acc1 EXCEPT !.awaitables = Append(@, dep_type)]
    IN  IF r.out.kind = "AsyncProviderInSyncContextError"
        THEN [acc1 EXCEPT !.out = r.out,
                          !.raised = Some([param_name |-> d.name, error |-> r.out])]
        ELSE IF r.out.kind # "ok"
        THEN [acc1 EXCEPT
                !.out = Raise("DependencyInjectionError", dep_type, <<>>, <<>>),
                !.raised = Some([param_name |-> d.name, error |-> r.out]),
                !.param_name = d.name,
                !.func_name = w.func.name,
                !.original_error = Some(r.out)]
        ELSE IF ~isawaitable(r.s, r.out.inst)
        THEN inject_dependencies(
                 w, i + 1, bound,
                 [acc1 EXCEPT
                    !.injected = Append(@, [name |-> d.name,
                                            value |-> Resolved(r.out.inst, FALSE)])],
                 raising)
        ELSE IF ~w.func.is_async
        THEN [acc2 EXCEPT
                !.out = Raise("AsyncProviderInSyncContextError", dep_type,
                              <<>>, <<>>)]
        ELSE inject_dependencies(
                 w, i + 1, bound,
                 [acc2 EXCEPT
                    !.injected = Append(@, [name |-> d.name,
                                            value |-> Resolved(r.out.inst, TRUE)])],
                 raising)

\* _inject_dependencies, from entry i of deps_to_inject on: a parameter
\* that is not among the bound arguments gets None (dep_type None) or the
\* result of Container.resolve.
inject_dependencies(w, i, bound, acc, raising) ==
    IF i > Len(w.deps_to_inject) THEN acc
    ELSE IF w.deps_to_inject[i].name \in bound
    THEN inject_dependencies(w, i + 1, bound, acc, raising)
    ELSE IF w.deps_to_inject[i].dep_type = None
    THEN inject_dependencies(
             w, i + 1, bound,
             [acc EXCEPT !.injected = Append(@, [name |-> w.deps_to_inject[i].name,
                                                 value |-> NoneValue])],
             raising)
    ELSE inject_resolved(w, i, bound, acc, raising,
                         resolve(w.deps_to_inject[i].dep_type[1], acc.s, raising))

\* func(*args, **kwargs) as the wrapper calls it: the value each parameter
\* of the wrapped callable receives, or "missing".  The asynchronous
\* wrapper has awaited the injected awaitables: what it passes is their
\* result.
received(func, nargs, kws, injected) ==
    [i \in 1..Len(func.params) |->
        LET name == func.params[i].name IN
        IF i <= nargs THEN Arg(i)
        ELSE IF name \in kws THEN Kw(name)
        ELSE IF \E j \in 1..Len(injected) : injected[j].name = name
        THEN LET v == injected[CHOOSE j \in 1..Len(injected) :
                                  injected[j].name = name].value
             IN  [v EXCEPT !.pending = IF func.is_async THEN FALSE ELSE @]
        ELSE IF func.params[i].default THEN Default(name)
        ELSE Value("missing", 0, name, NoInstance, FALSE)]

\* The end of sync_wrapper / async_wrapper, once _inject_dependencies has
\* returned inj: the injected values join the keyword arguments and the
\* wrapped callable is called, which fails with TypeError when a parameter
\* has no value.  body tells whether the wrapped callable's body ran.
call_func(w, nargs, kws, inj) ==
    IF inj.out.kind # "ok"
    THEN [inj |-> inj, body |-> FALSE, received |-> <<>>]
    ELSE IF \E i \in 1..Len(w.func.params) :
                received(w.func, nargs, kws, inj.injected)[i].src = "missing"
    THEN [inj |-> [inj EXCEPT !.out = Raise("TypeError", w.func.name, <<>>, <<>>)],
          body |-> FALSE, received |-> <<>>]
    ELSE [inj |-> inj, body |-> TRUE,
          received |-> received(w.func, nargs, kws, inj.injected)]

\* Variant: the plan is computed again from the registry at every call.
wrapper_replan(w, nargs, kws, s, raising) ==
    IF bind_fails(w.func, nargs, kws)
    THEN [inj |-> [Injection(s) EXCEPT
                     !.func_name = w.func.name,
                     !.out = Raise("TypeError", w.func.name, <<>>, <<>>)],
          body |-> FALSE, received |-> <<>>]
    ELSE call_func(w, nargs, kws,
                   inject_dependencies(
                       [w EXCEPT !.deps_to_inject = deps_to_inject(w.func, s.reg)],
                       1, arguments(w.func, nargs, kws),
                       [Injection(s) EXCEPT !.func_name = w.func.name], raising))

\* sync_wrapper / async_wrapper: binding against the original signature,
\* injection, then the call of the wrapped callable.
wrapper(w, nargs, kws, s, raising) ==
    IF bind_fails(w.func, nargs, kws)
    THEN [inj |-> [Injection(s) EXCEPT
                     !.func_name = w.func.name,
                     !.out = Raise("TypeError", w.func.name, <<>>, <<>>)],
          body |-> FALSE, received |-> <<>>]
    ELSE call_func(w, nargs, kws,
                   inject_dependencies(
                       w, 1, arguments(w.func, nargs, kws),
                       [Injection(s) EXCEPT !.func_name = w.func.name], raising))

\* inject(func): the plan is computed from the registry as it is now and
\* kept in the wrapper, with the signature the wrapper shows.  registered
\* remembers the registry of this moment.
inject(func) ==
    /\ Op
    /\ Len(wrapped) < MaxWrapped
    /\ wrapped' = Append(wrapped,
                         [func |-> func,
                          deps_to_inject |-> deps_to_inject(func, container_by_type),
                          signature |-> new_sig(func, deps_to_inject(
                                                          func, container_by_type)),
                          registered |-> container_by_type])
    /\ last' = Observed("inject", func.name, Ok(NoInstance), 0,
                        resolution_stack, FALSE)
    /\ UNCHANGED <<container_by_type, resolution_stack, provs, insts, saved,
                   aliases, restoring, chains, blocks, http, bg, cfg>>

\* What the caller of wrapper number n observes when the call ended with r,
\* and the state the call leaves.
Returned(n, nargs, kws, r) ==
    /\ Len(r.inj.s.insts) <= MaxInstances
    /\ StackLen(r.inj.s.stack) <= MaxStack
    /\ provs' = r.inj.s.provs
    /\ insts' = r.inj.s.insts
    /\ resolution_stack' = r.inj.s.stack
    /\ last' = [wrapper |-> n, nargs |-> nargs, kws |-> kws, body |-> r.body,
                received |-> r.received, resolved |-> r.inj.resolved,
                raised |-> r.inj.raised, awaitables |-> r.inj.awaitables,
                param_name |-> r.inj.param_name,
                func_name |-> r.inj.func_name,
                original_error |-> r.inj.original_error,
                before |-> [provs |-> provs, insts |-> insts]]
               @@ Observed("call", wrapped[n].func.name, r.inj.out, 0,
                           r.inj.s.stack, FALSE)
    /\ UNCHANGED <<container_by_type, saved, aliases, restoring, chains,
                   wrapped, blocks, http, bg, cfg>>

\* A call of wrapper number n with nargs positional arguments and the
\* keyword arguments kws.
Call(n, nargs, kws, raising) ==
    /\ Op
    /\ Returned(n, nargs, kws, wrapper(wrapped[n], nargs, kws, State, raising))

\* The sets of classes whose constructor body raises during one call.
InjectRaising == {{}, {"Config", "Service"}}

\* The decorators used on these classes: @singleton and @resource.
InjectScope == {"singleton", "resource"}

ParamNames(func) == {func.params[i].name : i \in 1..Len(func.params)}

NextInject ==
    \/ \E k \in InjectKeys, scope \in InjectScope : registry_provider(k, scope)
    \/ reset
    \/ \E func \in Funcs : inject(func)
    \/ \E n \in 1..Len(wrapped), raising \in InjectRaising :
          \E nargs \in 0..Len(wrapped[n].func.params),
             kws \in SUBSET ParamNames(wrapped[n].func) :
                Call(n, nargs, kws, raising)

SpecInject == Init /\ [][NextInject]_vars

(***************************************************************************)
(* Helpers for the properties of wrapped callables: the wrapper of the     *)
(* last call, whether the caller passed parameter i, and how the plan was  *)
(* bound to classify it when the callable was wrapped.                     *)
(***************************************************************************)
LastWrapper == wrapped[last.wrapper]

LastParams == LastWrapper.func.params

Passed(i) == i <= last.nargs \/ LastParams[i].name \in last.kws

Required(i) == in_provider(LastWrapper.registered, LastParams[i].type)

Injectable(i) == Required(i) \/ LastParams[i].optional

\* The value is an instance the key's provider built.
ResolvedFor(v, key) ==
    /\ v.src = "resolved"
    /\ insts[v.inst].cls = key
    /\ insts[v.inst].by = Lookup(container_by_type, key)

(***************************************************************************)
(* C13: a parameter left to the caller that comes after the first injected *)
(* parameter can be passed only by keyword: a call that passes it          *)
(* positionally fails with TypeError, and a call that passes it by keyword *)
(* (the parameters before the first injected one positionally, the         *)
(* injected ones not at all) succeeds with the injected parameters         *)
(* resolved, unless their resolution fails.                                *)
(***************************************************************************)
C13_KeywordOnly ==
    last.op = "call" =>
        /\ ( \E i \in 1..Len(LastParams) :
                 /\ LastWrapper.signature[i] = "KEYWORD_ONLY"
                 /\ i <= last.nargs )
           => last.kind = "TypeError"
        /\ ( /\ \A i \in 1..Len(LastParams) :
                   /\ Injectable(i) => ~Passed(i)
                   /\ LastWrapper.signature[i] = "KEYWORD_ONLY"
                          => LastParams[i].name \in last.kws
                   /\ ( ~Injectable(i)
                        /\ LastWrapper.signature[i] # "KEYWORD_ONLY" )
                          => i <= last.nargs
             /\ \A name \in last.kws :
                   \E i \in 1..Len(LastParams) :
                       /\ LastParams[i].name = name
                       /\ LastWrapper.signature[i] = "KEYWORD_ONLY"
             /\ last.raised = None
             /\ last.awaitables = <<>> )
           => /\ last.kind = "ok"
              /\ last.body
              /\ \A i \in 1..Len(LastParams) :
                    (Required(i) /\ ~LastParams[i].default)
                    => ResolvedFor(last.received[i], LastParams[i].type)

(***************************************************************************)
(* C14: in a call of a wrapped callable, every parameter whose class was   *)
(* registered when the callable was wrapped and that the caller passed     *)
(* neither positionally nor by keyword receives the instance               *)
(* Container.resolve returns for its class.                                *)
(***************************************************************************)
C14_RequiredInjected ==
    (last.op = "call" /\ last.body) =>
        \A i \in 1..Len(LastParams) :
            (Required(i) /\ ~Passed(i))
            => ResolvedFor(last.received[i], LastParams[i].type)

\* C14 as the code has it: the parameters that have a default value are
\* bound to it before the injection and are not resolved.
C14_RequiredInjectedNoDefault ==
    (last.op = "call" /\ last.body) =>
        \A i \in 1..Len(LastParams) :
            (Required(i) /\ ~Passed(i) /\ ~LastParams[i].default)
            => ResolvedFor(last.received[i], LastParams[i].type)

\* The body of handler ran with s1 resolved, p1 and p2 passed by the caller.
C14_Witness ==
    /\ last.op = "call"
    /\ last.body
    /\ Len(LastParams) = 3
    /\ Required(2)
    /\ ~Passed(2)
    /\ last.received[2].src = "resolved"

(***************************************************************************)
(* C15: a value the caller passes for an injectable parameter reaches the  *)
(* wrapped callable unchanged and Container.resolve is not called for that *)
(* parameter's class: when no parameter is resolved, no instance is built  *)
(* and no provider changes.                                                *)
(***************************************************************************)
C15_PassedNotResolved ==
    last.op = "call" =>
        /\ \A i \in 1..Len(LastParams) :
              (Injectable(i) /\ Passed(i) /\ last.body)
              => last.received[i] = IF i <= last.nargs THEN Arg(i)
                                    ELSE Kw(LastParams[i].name)
        /\ ( \A i \in 1..Len(LastParams) : Injectable(i) => Passed(i) )
           => /\ last.resolved = <<>>
              /\ insts = last.before.insts
              /\ provs = last.before.provs

\* The body ran with a value of the caller for a parameter whose class is
\* registered and whose provider has built nothing.
C15_Witness ==
    /\ last.op = "call"
    /\ last.body
    /\ \E i \in 1..Len(LastParams) :
          /\ Required(i)
          /\ Passed(i)
          /\ in_provider(container_by_type, LastParams[i].type)
          /\ provs[Lookup(container_by_type, LastParams[i].type)].cache
                 = NoInstance

(***************************************************************************)
(* C16: f(dep: Optional[D]) wrapped while D is not registered and called   *)
(* without arguments succeeds with None for dep; Container.resolve is not  *)
(* called and neither ProviderNotFoundError nor DependencyInjectionError   *)
(* is raised.                                                              *)
(***************************************************************************)
C16_OptionalAbsent ==
    ( /\ last.op = "call"
      /\ Len(LastParams) = 1
      /\ LastParams[1].optional
      /\ ~Required(1)
      /\ last.nargs = 0
      /\ last.kws = {} )
    => /\ last.kind = "ok"
       /\ last.body
       /\ last.received[1] = NoneValue
       /\ last.resolved = <<>>

\* optional_handler, wrapped while Config was not registered, was called
\* without arguments.
C16_Witness ==
    /\ last.op = "call"
    /\ last.key = "optional_handler"
    /\ ~Required(1)
    /\ last.nargs = 0
    /\ last.kws = {}

(***************************************************************************)
(* C17: the injection plan is fixed when the callable is wrapped: a        *)
(* wrapper never changes, Container.resolve is only ever called for        *)
(* classes that were registered at that moment, and a parameter whose      *)
(* class was not registered then is never resolved, also once its class is *)
(* registered: it holds what the caller passed, None if it is Optional, or *)
(* its default.                                                            *)
(***************************************************************************)
C17_PlanFixed ==
    /\ \A n \in 1..Len(wrapped) :
          wrapped[n].deps_to_inject
              = deps_to_inject(wrapped[n].func, wrapped[n].registered)
    /\ last.op = "call" =>
          /\ \A j \in 1..Len(last.resolved) :
                in_provider(LastWrapper.registered, last.resolved[j])
          /\ \A i \in 1..Len(LastParams) :
                (last.body /\ ~Required(i) /\ ~Passed(i))
                => last.received[i].src \in {"none", "default"}

\* A callable wrapped while Config was not registered is called, without a
\* value for that parameter, once Config is registered.
C17_Witness ==
    /\ last.op = "call"
    /\ last.body
    /\ \E i \in 1..Len(LastParams) :
          /\ ~Required(i)
          /\ ~Passed(i)
          /\ in_provider(container_by_type, LastParams[i].type)

(***************************************************************************)
(* C18: an exception raised while Container.resolve runs for parameter p   *)
(* of wrapped callable f reaches the caller as DependencyInjectionError    *)
(* with provider_type the class of p, param_name p, func_name the name of  *)
(* f and original_error the exception raised; the body of f does not run.  *)
(***************************************************************************)
C18_ErrorsWrapped ==
    (last.op = "call" /\ last.raised # None) =>
        /\ last.kind = "DependencyInjectionError"
        /\ \E i \in 1..Len(LastParams) :
              /\ LastParams[i].name = last.raised[1].param_name
              /\ LastParams[i].type = last.type
        /\ last.param_name = last.raised[1].param_name
        /\ last.func_name = LastWrapper.func.name
        /\ last.original_error = Some(last.raised[1].error)
        /\ ~last.body

(***************************************************************************)
(* C19: when the resolution of a dependency returns an awaitable, a        *)
(* synchronous wrapped callable fails with AsyncProviderInSyncContextError *)
(* for that class, not wrapped in DependencyInjectionError, and its body   *)
(* does not run; an asynchronous one runs its body with the awaited        *)
(* result.                                                                 *)
(***************************************************************************)
C19_AsyncDiscipline ==
    (last.op = "call" /\ last.awaitables # <<>>) =>
        IF ~LastWrapper.func.is_async
        THEN /\ last.kind = "AsyncProviderInSyncContextError"
             /\ last.type = last.awaitables[Len(last.awaitables)]
             /\ last.original_error = None
             /\ ~last.body
        ELSE /\ last.kind = "ok"
             /\ last.body
             /\ \A i \in 1..Len(LastParams) :
                   ( ~Passed(i) /\ InSeq(LastParams[i].type, last.awaitables) )
                   => /\ ResolvedFor(last.received[i], LastParams[i].type)
                      /\ ~last.received[i].pending

\* The asynchronous query_service ran its body with the TestDB obtained by
\* awaiting what the Resource provider returned.
C19_Witness ==
    /\ last.op = "call"
    /\ LastWrapper.func.is_async
    /\ last.awaitables = <<"TestDB">>
    /\ last.body
    /\ last.received[1].src = "resolved"

(***************************************************************************)
(* Config and Server(config: Config): the classes are registered and       *)
(* resolved in any order and with any scope.                               *)
(***************************************************************************)
ServerKeys == {"Config", "Server"}

NextServer ==
    \/ \E k \in ServerKeys, scope \in Scope : registry_provider(k, scope)
    \/ \E k \in ServerKeys, raising \in Raising : Resolve(k, raising)

SpecServer == Init /\ [][NextServer]_vars

\* Config is registered as Singleton and Server as Singleton after it.
ConfigThenServer ==
    /\ in_provider(container_by_type, "Config")
    /\ in_provider(container_by_type, "Server")
    /\ provs[ProviderOf("Config")].scope = "singleton"
    /\ provs[ProviderOf("Server")].scope = "singleton"
    /\ ProviderOf("Config") < ProviderOf("Server")

(***************************************************************************)
(* C20: with Config registered as Singleton and then Server registered as  *)
(* Singleton, resolve(Server) returns a Server whose config is the very    *)
(* instance resolve(Config) returns, and every resolve(Server) returns     *)
(* that same Server, whichever of the two is resolved first.               *)
(***************************************************************************)
C20_ServerHoldsConfig ==
    ConfigThenServer =>
        LET config == provs[ProviderOf("Config")].cache
            server == provs[ProviderOf("Server")].cache
        IN  /\ provs[ProviderOf("Server")].wired = <<"Config">>
            /\ (last.op = "resolve" /\ last.key = "Server")
               => last.kind \in {"ok", "RuntimeError"}
            /\ Cardinality(BuiltBy(insts, ProviderOf("Server"))) <= 1
            /\ Cardinality(BuiltBy(insts, ProviderOf("Config"))) <= 1
            /\ server # NoInstance
               => /\ config # NoInstance
                  /\ insts[server].deps = <<config>>
            /\ (IsResolveOk(last) /\ last.key = "Server") => last.inst = server
            /\ (IsResolveOk(last) /\ last.key = "Config") => last.inst = config
            /\ (IsResolveOk(last) /\ last.key = "Server")
               => /\ insts[last.inst].cls = "Server"
                  /\ insts[insts[last.inst].deps[1]].cls = "Config"

\* Server is resolved while the Config instance already exists.
C20_Witness ==
    /\ ConfigThenServer
    /\ IsResolveOk(last)
    /\ last.key = "Server"
    /\ insts[provs[ProviderOf("Config")].cache].by = ProviderOf("Config")
    /\ provs[ProviderOf("Config")].cache < last.inst

(***************************************************************************)
(* Config and Server(config: Config) registered in any order, the registry *)
(* reset, and the providers invoked directly or through resolve.           *)
(***************************************************************************)
NextWiring ==
    \/ \E k \in ServerKeys, scope \in Scope : registry_provider(k, scope)
    \/ \E k \in ServerKeys, raising \in Raising : CallProvider(k, raising)
    \/ \E k \in ServerKeys, raising \in Raising : Resolve(k, raising)
    \/ reset

SpecWiring == Init /\ [][NextWiring]_vars

\* The step registers the class k.
Registers(k) == ops' # ops /\ last'.op = "register" /\ last'.key = k

\* The step invokes the provider registered for k (directly or by resolve).
Invokes(k) ==
    /\ ops' # ops
    /\ last'.op \in {"resolve", "call_provider"}
    /\ last'.key = k
    /\ in_provider(container_by_type, k)

\* What Container.resolve(Config) yields in the step: the cached instance of
\* the provider now registered for Config, else one it builds in the step.
ThroughResolve(d) ==
    LET p == ProviderOf("Config") IN
    /\ insts'[d].by = p
    /\ IF provs[p].scope # "factory" /\ provs[p].cache # NoInstance
       THEN d = provs[p].cache
       ELSE d > Len(insts)

(***************************************************************************)
(* C21: the constructor parameters a class provider wires are decided when *)
(* the class is registered and never change: Server registered while       *)
(* Config is a registered key gets Config through Container.resolve on     *)
(* every invocation of its factory; Server registered while Config is not  *)
(* registered is never given it, so invoking its provider fails with       *)
(* TypeError and not with a container error, also after Config has been    *)
(* registered.                                                             *)
(***************************************************************************)
C21_WiredAtRegistration ==
    [][/\ \A p \in 1..Len(provs) : provs'[p].wired = provs[p].wired
       /\ Registers("Server")
          => provs'[Len(provs')].wired =
                 IF in_provider(container_by_type, "Config") THEN <<"Config">>
                 ELSE <<>>
       /\ Invokes("Server")
          => LET p == ProviderOf("Server")
                 built == Len(insts') > Len(insts)
                          /\ insts'[Len(insts')].cls = "Server"
             IN  /\ provs[p].wired = <<>>
                    => /\ last'.kind = "TypeError"
                       /\ insts' = insts
                 /\ (provs[p].wired # <<>> /\ provs'[p].calls > provs[p].calls)
                    => IF in_provider(container_by_type, "Config")
                       THEN last'.kind \in {"ok", "RuntimeError"}
                       ELSE /\ last'.kind = "ProviderNotFoundError"
                            /\ last'.type = "Config"
                 /\ built
                    => /\ Len(insts'[Len(insts')].deps) = 1
                       /\ ThroughResolve(insts'[Len(insts')].deps[1])
      ]_vars

\* Server was registered before Config, Config is registered now, and the
\* provider of Server has just been invoked and failed with TypeError.
C21_Witness ==
    /\ last.op \in {"resolve", "call_provider"}
    /\ last.key = "Server"
    /\ last.kind = "TypeError"
    /\ in_provider(container_by_type, "Server")
    /\ in_provider(container_by_type, "Config")
    /\ ProviderOf("Server") < ProviderOf("Config")

(***************************************************************************)
(* A resource class used through `async with await Container.resolve(R)`: *)
(* TestDB(DatabaseConnection).  blocks holds the instances of the          *)
(* `async with` blocks the application is inside, innermost last.          *)
(* Entering a block resolves R and runs the instance's __aenter__          *)
(* (connect); leaving it runs __aexit__ (close).  Inside a block the       *)
(* application may query (Mutate).  No step touches the provider's cache:  *)
(* the provider object is never shut down.                                 *)
(***************************************************************************)
ResourceKeys == {"TestDB"}

\* async with await Container.resolve(R) as db: (entry)
Acquire(dep_type) ==
    LET r == resolve(dep_type, State, {}) IN
    /\ Op
    /\ Len(blocks) < MaxBlocks
    /\ Len(r.s.insts) <= MaxInstances
    /\ provs' = r.s.provs
    /\ resolution_stack' = r.s.stack
    /\ insts' = IF r.out.kind # "ok" THEN r.s.insts
                ELSE [r.s.insts EXCEPT ![r.out.inst].is_connected = TRUE]
    /\ blocks' = IF r.out.kind # "ok" THEN blocks ELSE Append(blocks, r.out.inst)
    /\ last' = Observed("acquire", dep_type, r.out, 0, r.s.stack, FALSE)
    /\ UNCHANGED <<container_by_type, saved, aliases, restoring, chains,
                   wrapped, http, bg, cfg>>

\* Leaving the innermost `async with` block: DatabaseConnection.__aexit__.
Release ==
    /\ Op
    /\ blocks # <<>>
    /\ LET db == blocks[Len(blocks)] IN
       /\ insts' = [insts EXCEPT ![db].is_connected = FALSE,
                                 ![db].is_closed = TRUE]
       /\ last' = Observed("release", insts[db].cls, Ok(db), 0,
                           resolution_stack, FALSE)
    /\ blocks' = Pop(blocks)
    /\ UNCHANGED <<container_by_type, resolution_stack, provs, saved, aliases,
                   restoring, chains, wrapped, http, bg, cfg>>

NextResource ==
    \/ \E k \in ResourceKeys, scope \in Scope : registry_provider(k, scope)
    \/ \E k \in ResourceKeys : Resolve(k, {})
    \/ \E k \in ResourceKeys : Acquire(k)
    \/ \E i \in 1..Len(insts) : Mutate(i)
    \/ Release

SpecResource == Init /\ [][NextResource]_vars

\* The blocks that hold an instance built by provider p.
Open(p) == {b \in 1..Len(blocks) : insts[blocks[b]].by = p}

(***************************************************************************)
(* C22: while a key registered with Scope.RESOURCE is open (the            *)
(* application is inside a block on its instance and has not left it),     *)
(* every resolve and every nested or repeated acquisition of the key       *)
(* yields that same instance.                                              *)
(***************************************************************************)
C22_ResourceIdentityWhileOpen ==
    \A k \in ResourceKeys :
        (in_provider(container_by_type, k)
         /\ provs[ProviderOf(k)].scope = "resource")
        => LET p == ProviderOf(k) IN
           /\ \A b \in Open(p) : blocks[b] = provs[p].cache
           /\ (last.op \in {"resolve", "acquire"} /\ last.key = k
               /\ Open(p) # {})
              => /\ last.kind = "ok"
                 /\ \A b \in Open(p) : blocks[b] = last.inst

\* Two nested blocks are open on the resource and it has been resolved again.
C22_Witness ==
    /\ in_provider(container_by_type, "TestDB")
    /\ provs[ProviderOf("TestDB")].scope = "resource"
    /\ Cardinality(Open(ProviderOf("TestDB"))) = 2
    /\ last.op = "resolve"
    /\ last.key = "TestDB"
    /\ last.kind = "ok"

(***************************************************************************)
(* C23: once a Resource has been acquired, mutated and released (its       *)
(* `async with` block left, which closes the instance), the next           *)
(* acquisition through the container builds a new instance, which is       *)
(* neither mutated nor closed.                                             *)
(***************************************************************************)
C23_ResourceRoundTrip ==
    [][\A k \in ResourceKeys :
          LET p == ProviderOf(k) IN
          (/\ ops' # ops
           /\ last'.op = "acquire" /\ last'.key = k /\ last'.kind = "ok"
           /\ in_provider(container_by_type, k)
           /\ provs[p].scope = "resource"
           /\ Open(p) = {}
           /\ provs[p].cache # NoInstance
           /\ insts[provs[p].cache].is_closed)
          => /\ last'.inst > Len(insts)
             /\ insts'[last'.inst].counter = 0
             /\ ~insts'[last'.inst].is_closed
      ]_vars

(***************************************************************************)
(* Http._request.  The server and the network are the environment: each    *)
(* client.send ends with a response of some status or with an exception.   *)
(* A request either passes all four per-request handlers (on_before,       *)
(* on_after, on_status = {503: handler}, on_exception) or none; at most    *)
(* one stage of a request raises when it is reached (raising): building    *)
(* the request or a handler raises ValueError, except on_after, which      *)
(* calls response.raise_for_status() and so raises HTTPStatusError,        *)
(* carrying the response, for a status of 400 or more.                     *)
(***************************************************************************)
ContainerVars ==
    <<container_by_type, resolution_stack, provs, insts, saved, aliases, last,
      ops, restoring, chains, wrapped, blocks>>

HttpStatuses == {200, 503}

SendErrors == {"ConnectTimeout", "ReadError"}

BeforeHandlers == {"b1", "b2"}

AfterHandlers == {"a1"}

OnStatus == {503}

Stages ==
    {"build", "on_before", "on_after", "on_status", "on_exception"}
        \cup BeforeHandlers \cup AfterHandlers

\* An exception and the response it carries (getattr(e, 'response', None)).
Error(type, response) == [type |-> type, response |-> response]

Result(response, status, exception) ==
    [response |-> response, status |-> status, exception |-> exception]

\* Result.from_response
from_response(status) == Result(Some(status), status, None)

\* Result.from_exception
from_exception(e) ==
    Result(e.response, IF e.response # None THEN e.response[1] ELSE 0,
           Some(e.type))

\* The arguments of Http.retry: attempts, delay, backoff, when_status and
\* when_exception (None or a non-empty tuple).
RetryPolicies ==
    [attempts : {0, MaxAttempts}, delay : {3}, backoff : {3},
     when_status : {None, Some({503})},
     when_exception : {None, Some({"ConnectTimeout"})}]

\* Http._clear_retry_config
clear_retry_config(h) ==
    [h EXCEPT !.retry_attempts = None, !.retry_delay = 1, !.retry_backoff = 2,
              !.retry_when_status = None, !.retry_when_exception = None]

\* Calling the stages in order from position i: the ones called, and
\* whether the last of them raised.
RECURSIVE run(_, _, _, _)
run(stages, i, raising, called) ==
    IF i > Len(stages) THEN [events |-> called, raised |-> FALSE]
    ELSE IF stages[i] = raising
    THEN [events |-> Append(called, stages[i]), raised |-> TRUE]
    ELSE run(stages, i + 1, raising, Append(called, stages[i]))

\* One more event of the attempt in progress.
Logged(q, event) ==
    [q EXCEPT !.log[Len(q.log)].events = Append(@, event)]

\* The except branch of _request: the per-request on_exception handler is
\* called, then the attempt is repeated after a sleep or the Result of the
\* exception is returned.  An exception raised by on_exception leaves
\* _request.
except_branch(h, e) ==
    LET q0 == [h.req EXCEPT !.log[Len(h.req.log)].error = e.type]
        q == IF q0.hooks THEN Logged(q0, "on_exception") ELSE q0
        should_retry ==
            IF h.retry_when_exception # None
            THEN e.type \in h.retry_when_exception[1]
            ELSE h.retry_attempts # None
    IN  IF q.hooks /\ q.raising = "on_exception"
        THEN [h EXCEPT !.req = [q EXCEPT !.pc = "done",
                                         !.raised = Some("ValueError")]]
        ELSE IF should_retry /\ q.attempt < q.retry_attempts
        THEN [h EXCEPT !.req = [q EXCEPT !.pc = "sleep"]]
        ELSE clear_retry_config(
                 [h EXCEPT !.req = [q EXCEPT !.pc = "done",
                                             !.result = Some(from_exception(e))]])

\* Variant: the per-request on_before runs before the instance-level ones.
begin_attempt_local_first(h) ==
    LET q == h.req
        stages == <<"build">> \o (IF q.hooks THEN <<"on_before">> ELSE <<>>)
                      \o h.before_handlers
        r == run(stages, 1, q.raising, <<>>)
    IN  IF r.raised
        THEN except_branch(
                 [h EXCEPT !.req.log =
                      Append(q.log, [NewAttempt EXCEPT !.events = r.events])],
                 Error("ValueError", None))
        ELSE [h EXCEPT !.req.log =
                  Append(q.log, [NewAttempt EXCEPT
                                    !.events = Append(r.events, "send")]),
                       !.req.pc = "send"]

\* An attempt up to the call of client.send: the request is built, the
\* instance-level before-handlers and the per-request on_before are called.
begin_attempt(h) ==
    LET q == h.req
        stages == <<"build">> \o h.before_handlers
                      \o (IF q.hooks THEN <<"on_before">> ELSE <<>>)
        r == run(stages, 1, q.raising, <<>>)
    IN  IF r.raised
        THEN except_branch(
                 [h EXCEPT !.req.log =
                      Append(q.log, [NewAttempt EXCEPT !.events = r.events])],
                 Error("ValueError", None))
        ELSE [h EXCEPT !.req.log =
                  Append(q.log, [NewAttempt EXCEPT
                                    !.events = Append(r.events, "send")]),
                       !.req.pc = "send"]

\* An attempt after client.send returned a response: the instance-level
\* after-handlers, the per-request on_after and the on_status handler of the
\* status are called; then the attempt is repeated after a sleep when the
\* status is one of when_status and attempts are left, else the Result of
\* the response is returned.
after_response(h, status) ==
    LET q == h.req
        stages == h.after_handlers
                      \o (IF q.hooks THEN <<"on_after">> ELSE <<>>)
                      \o (IF q.hooks /\ status \in OnStatus
                          THEN <<"on_status">> ELSE <<>>)
        raising == IF q.raising = "on_after" /\ status < 400 THEN "none"
                   ELSE q.raising
        r == run(stages, 1, raising, q.log[Len(q.log)].events)
        h1 == [h EXCEPT !.req.log[Len(q.log)].events = r.events,
                        !.req.log[Len(q.log)].status = status]
    IN  IF r.raised
        THEN except_branch(h1, IF r.events[Len(r.events)] = "on_after"
                               THEN Error("HTTPStatusError", Some(status))
                               ELSE Error("ValueError", None))
        ELSE IF /\ h.retry_when_status # None
                /\ status \in h.retry_when_status[1]
                /\ q.attempt < q.retry_attempts
        THEN [h1 EXCEPT !.req.pc = "sleep"]
        ELSE clear_retry_config(
                 [h1 EXCEPT !.req.pc = "done",
                            !.req.result = Some(from_response(status))])

\* No request is in flight and the application may issue one more.
Idle == http.req.pc \in {"idle", "done"} /\ http.requests < MaxRequests

\* Http.on_before
on_before(handler) ==
    /\ Idle
    /\ ~InSeq(handler, http.before_handlers)
    /\ http' = [http EXCEPT !.before_handlers = Append(@, handler)]
    /\ UNCHANGED <<ContainerVars, bg, cfg>>

\* Http.on_after
on_after(handler) ==
    /\ Idle
    /\ ~InSeq(handler, http.after_handlers)
    /\ http' = [http EXCEPT !.after_handlers = Append(@, handler)]
    /\ UNCHANGED <<ContainerVars, bg, cfg>>

\* Http.retry
retry(policy) ==
    /\ Idle
    /\ http' = [http EXCEPT !.retry_attempts = Some(policy.attempts),
                            !.retry_delay = policy.delay,
                            !.retry_backoff = policy.backoff,
                            !.retry_when_status = policy.when_status,
                            !.retry_when_exception = policy.when_exception,
                            !.retry_called = TRUE]
    /\ UNCHANGED <<ContainerVars, bg, cfg>>

\* Http.get / post / put / delete / patch: _request up to its first await
\* of client.send (or to its end when the request fails before).
Request(hooks, raising) ==
    /\ Idle
    /\ raising \in {"on_before", "on_after", "on_status", "on_exception"}
       => hooks
    /\ raising \in BeforeHandlers => InSeq(raising, http.before_handlers)
    /\ raising \in AfterHandlers => InSeq(raising, http.after_handlers)
    /\ LET h == [http EXCEPT !.requests = @ + 1, !.retry_called = FALSE] IN
       http' = IF ~h.enable
               THEN [h EXCEPT !.req = [NewRequest EXCEPT
                                          !.pc = "done",
                                          !.raised = Some("HttpDisabledException")]]
               ELSE begin_attempt(
                        [h EXCEPT !.req = [NewRequest EXCEPT
                                              !.hooks = hooks,
                                              !.raising = raising,
                                              !.configured = http.retry_called,
                                              !.alone = http.other.pc
                                                            \in {"idle", "done"},
                                              !.handlers =
                                                  [before |-> h.before_handlers,
                                                   after |-> h.after_handlers],
                                              !.policy =
                                                  [attempts |-> h.retry_attempts,
                                                   when_status |-> h.retry_when_status,
                                                   when_exception |-> h.retry_when_exception],
                                              !.retry_attempts =
                                                  IF h.retry_attempts # None
                                                  THEN h.retry_attempts[1]
                                                  ELSE 0]])
    /\ UNCHANGED <<ContainerVars, bg, cfg>>

\* client.send returns a response.
SendReturns(status) ==
    /\ http.req.pc = "send"
    /\ http' = after_response(http, status)
    /\ UNCHANGED <<ContainerVars, bg, cfg>>

\* client.send raises.
SendRaises(error) ==
    /\ http.req.pc = "send"
    /\ http' = except_branch(http, Error(error, None))
    /\ UNCHANGED <<ContainerVars, bg, cfg>>

\* asyncio.sleep returns: the next attempt of the loop begins.
SleepReturns ==
    /\ http.req.pc = "sleep"
    /\ http' = begin_attempt([http EXCEPT !.req.attempt = @ + 1])
    /\ UNCHANGED <<ContainerVars, bg, cfg>>

InitContainer ==
    /\ container_by_type = <<>>
    /\ resolution_stack = None
    /\ provs = <<>>
    /\ insts = <<>>
    /\ saved = None
    /\ aliases = {}
    /\ last = Observed("init", "", Ok(NoInstance), 0, None, FALSE)
    /\ ops = 0
    /\ restoring = None
    /\ chains = [c \in Chains |-> NewChain]
    /\ wrapped = <<>>
    /\ blocks = <<>>

\* Http(config) for a configuration with http_enable set or not.
InitHttp ==
    /\ InitContainer
    /\ http \in {[NewHttp EXCEPT !.enable = enable] : enable \in BOOLEAN}
    /\ bg = NewBackground("locked", TRUE)
    /\ cfg = NewConfig

NextHttp ==
    \/ \E handler \in BeforeHandlers : on_before(handler)
    \/ \E handler \in AfterHandlers : on_after(handler)
    \/ \E policy \in RetryPolicies : retry(policy)
    \/ \E hooks \in BOOLEAN, raising \in Stages \cup {"none"} :
          Request(hooks, raising)
    \/ \E status \in HttpStatuses : SendReturns(status)
    \/ \E error \in SendErrors : SendRaises(error)
    \/ SleepReturns

SpecHttp == InitHttp /\ [][NextHttp]_vars

(***************************************************************************)
(* Helpers for the properties of a request.                                *)
(***************************************************************************)
\* The attempts of the request that called client.send.
Sent(q) == {a \in 1..Len(q.log) : InSeq("send", q.log[a].events)}

\* The attempts that ended in the except branch.
Failed(q) == {a \in 1..Len(q.log) : q.log[a].error # ""}

\* The request was issued after retry(attempts, when_status, when_exception)
\* with when_status given or not (ws) and when_exception given or not (we),
\* and none of its handlers raises.
IssuedAfterRetry(q, ws, we) ==
    /\ q.pc # "idle"
    /\ q.raising = "none"
    /\ q.policy.attempts # None
    /\ (q.policy.when_status # None) = ws
    /\ (q.policy.when_exception # None) = we

IsPrefix(s, t) == Len(s) <= Len(t) /\ SubSeq(t, 1, Len(s)) = s

\* The stages of one attempt in the order the claim gives them.
BeforeSend(q) ==
    <<"build">> \o q.handlers.before
        \o (IF q.hooks THEN <<"on_before">> ELSE <<>>) \o <<"send">>

AfterSend(q, status) ==
    q.handlers.after \o (IF q.hooks THEN <<"on_after">> ELSE <<>>)
        \o (IF q.hooks /\ status \in OnStatus THEN <<"on_status">> ELSE <<>>)

Called(q, a) == SelectSeq(q.log[a].events, LAMBDA e : e # "on_exception")

Times(q, stage) ==
    Cardinality({<<a, i>> \in (1..Len(q.log)) \X (1..(Cardinality(Stages) + 2)) :
                    /\ i <= Len(q.log[a].events)
                    /\ q.log[a].events[i] = stage})

(***************************************************************************)
(* C24: a request issued after retry(attempts = n, when_status = S) is     *)
(* sent at most n + 1 times; every send but the first follows a response   *)
(* whose status is in S; a response whose status is not in S ends          *)
(* the request and is its Result; and when every response has a status in  *)
(* S the Result is the (n + 1)-th response.                                *)
(***************************************************************************)
C24_RetryWhenStatus ==
    LET q == http.req IN
    IssuedAfterRetry(q, TRUE, FALSE)
    => LET n == q.policy.attempts[1]
           S == q.policy.when_status[1]
       IN  /\ Cardinality(Sent(q)) <= n + 1
           /\ \A a \in Sent(q) : a > 1 => q.log[a - 1].status \in S
           /\ \A a \in 1..Len(q.log) :
                 (q.log[a].status # 0 /\ q.log[a].status \notin S
                  /\ q.log[a].error = "")
                 => /\ a = Len(q.log)
                    /\ q.pc = "done"
                    /\ q.result = Some(from_response(q.log[a].status))
           /\ (/\ q.pc = "done"
               /\ \A a \in 1..Len(q.log) :
                     q.log[a].status \in S /\ q.log[a].error = "")
              => /\ Len(q.log) = n + 1
                 /\ q.result = Some(from_response(q.log[n + 1].status))

(***************************************************************************)
(* C25: a request issued after retry(attempts = n) with neither            *)
(* when_status nor when_exception is sent once only, whatever the response *)
(* status and also when sending raises.                                    *)
(***************************************************************************)
C25_NoConditionNoRetry ==
    LET q == http.req IN
    IssuedAfterRetry(q, FALSE, FALSE)
    => /\ Cardinality(Sent(q)) <= 1
       /\ (q.pc = "done" /\ q.raising = "none") => Cardinality(Sent(q)) = 1

(***************************************************************************)
(* C26: in every attempt of a request, the first and each retry, the       *)
(* stages run in this order: the instance-level before-handlers in         *)
(* registration order, the per-request on_before, the send, and after a    *)
(* response the instance-level after-handlers in registration order, the   *)
(* per-request on_after and the on_status handler of the status.  An       *)
(* attempt stops at the first stage that raises; when no attempt of a      *)
(* finished request raised, each handler ran once per attempt.             *)
(***************************************************************************)
C26_HandlerOrder ==
    LET q == http.req IN
    /\ \A a \in 1..Len(q.log) :
          LET at == q.log[a]
              full == BeforeSend(q) \o AfterSend(q, at.status)
          IN  /\ IsPrefix(Called(q, a), full)
              /\ (at.status # 0 /\ at.error = "") => Called(q, a) = full
              /\ at.status = 0 => IsPrefix(Called(q, a), BeforeSend(q))
              /\ at.error \in SendErrors => Called(q, a) = BeforeSend(q)
    /\ (q.pc = "done" /\ Failed(q) = {})
       => /\ \A handler \in BeforeHandlers \cup AfterHandlers :
                Times(q, handler) =
                    IF InSeq(handler, q.handlers.before \o q.handlers.after)
                    THEN Len(q.log) ELSE 0
          /\ q.hooks => /\ Times(q, "on_before") = Len(q.log)
                        /\ Times(q, "on_after") = Len(q.log)
                        /\ Times(q, "on_status") =
                               Cardinality({a \in 1..Len(q.log) :
                                               q.log[a].status \in OnStatus})

\* A request with all handlers, two instance-level before-handlers and an
\* after-handler has finished after three attempts, none of which raised.
C26_Witness ==
    LET q == http.req IN
    /\ q.pc = "done"
    /\ q.hooks
    /\ Len(q.log) = 3
    /\ Failed(q) = {}
    /\ Len(q.handlers.before) = 2
    /\ Len(q.handlers.after) = 1
    /\ q.result # None

(***************************************************************************)
(* C27: while the client is enabled no call of get/post/put/delete/patch   *)
(* raises; a request whose last attempt failed returns the Result of that  *)
(* exception (status 0 and no response when the exception carries none),   *)
(* and on_exception is called once for each failed attempt.                *)
(***************************************************************************)
C27_ExceptionsInResult ==
    LET q == http.req IN
    http.enable
    => /\ q.raised = None
       /\ (q.pc = "done" /\ Len(q.log) \in Failed(q))
          => /\ q.result # None
             /\ q.result[1].exception = Some(q.log[Len(q.log)].error)
             /\ q.log[Len(q.log)].error # "HTTPStatusError"
                => /\ q.result[1].status = 0
                   /\ q.result[1].response = None
       /\ q.hooks => Times(q, "on_exception") = Cardinality(Failed(q))


\* ---------------------------------------------------------------------
\* Background: tasks scheduled on an anyio task group from inside
\* "async with await Container.resolve(Background) as bg:".
\* ---------------------------------------------------------------------

Variants == {"locked", "module"}

\* The callables given to add: def or async def, raising or not, with a
\* __name__ or without one (a functools.partial).
TaskFuncs ==
    {f \in [kind : {"sync", "async"}, fails : BOOLEAN, named : BOOLEAN] :
        f.named \/ f.fails}

Finished == {"done", "failed", "cancelled", "raised"}

\* The task waits for the limiter before its body runs: every task of
\* the locked variant ("async with self._limiter"), the synchronous tasks
\* of the module variant (to_thread.run_sync(..., limiter=self._limiter)).
uses_limiter(b, t) == b.variant = "locked" \/ t.func.kind = "sync"

\* How the wrapper of a task ends once the body has run: "done", "failed"
\* (the exception was caught and logged) or "raised" (the wrapper itself
\* raises). The module variant formats func.__name__ in its handler.
safe_task(b, t) ==
    IF ~t.func.fails THEN "done"
    ELSE IF b.variant = "locked" \/ t.func.named THEN "failed"
    ELSE "raised"

\* Variant: the group is created without _started being set.
start_soon_unstarted(b, func) ==
    LET b1 == IF ~b.started
              THEN [b EXCEPT !.groups = Append(@, NewGroup),
                             !.task_group = Len(b.groups) + 1]
              ELSE b
    IN  IF b1.variant = "module" \/ b1.task_group # 0
        THEN [b1 EXCEPT !.tasks = Append(@, NewTask(func, b1.task_group))]
        ELSE b1

\* Variant: every call creates a group, started or not.
start_soon_regroup(b, func) ==
    LET b1 == [b EXCEPT !.groups = Append(@, NewGroup),
                        !.task_group = Len(b.groups) + 1,
                        !.started = TRUE]
    IN  [b1 EXCEPT !.tasks = Append(@, NewTask(func, b1.task_group))]

\* The part of add after the enable check and the lock.
start_soon(b, func) ==
    LET b1 == IF ~b.started
              THEN [b EXCEPT !.groups = Append(@, NewGroup),
                             !.task_group = Len(b.groups) + 1,
                             !.started = TRUE]
              ELSE b
    IN  IF b1.variant = "module" \/ b1.task_group # 0
        THEN [b1 EXCEPT !.tasks = Append(@, NewTask(func, b1.task_group))]
        ELSE b1

\* await bg.add(func) in the body of the block. The locked variant checks
\* background_enable and then waits for the lock; the module variant
\* schedules at once.
add(func) ==
    /\ bg.ctx = "inside"
    /\ bg.pending = None
    /\ bg.add_raised = None
    /\ Len(bg.tasks) < MaxTasks
    /\ bg' = IF bg.variant = "module" THEN start_soon(bg, func)
             ELSE IF ~bg.enable
             THEN [bg EXCEPT !.add_raised = Some("BackgroundDisabledError")]
             ELSE [bg EXCEPT !.pending = Some(func)]
    /\ UNCHANGED <<ContainerVars, http, cfg>>

\* The lock is acquired: the rest of add runs and add returns.
LockAcquired ==
    /\ bg.pending # None
    /\ bg' = start_soon([bg EXCEPT !.pending = None], bg.pending[1])
    /\ UNCHANGED <<ContainerVars, http, cfg>>

\* Variant: a task starts without waiting for a free slot of the limiter.
TaskStarts_unlimited(i) ==
    LET t == bg.tasks[i]
        g == bg.groups[t.group]
        limited == uses_limiter(bg, t)
    IN  /\ t.state = "scheduled"
        /\ IF g.cancelled /\ limited
           THEN bg' = [bg EXCEPT !.tasks[i].state = "cancelled"]
           ELSE bg' = [bg EXCEPT !.tasks[i].state = "running",
                                 !.tasks[i].runs = @ + 1,
                                 !.borrowed = IF limited THEN @ + 1 ELSE @]
        /\ UNCHANGED <<ContainerVars, http, cfg>>

\* The event loop starts task i. In a cancelled group a task that waits
\* for the limiter is cancelled there, before its body.
TaskStarts(i) ==
    LET t == bg.tasks[i]
        g == bg.groups[t.group]
        limited == uses_limiter(bg, t)
    IN  /\ t.state = "scheduled"
        /\ IF g.cancelled /\ limited
           THEN bg' = [bg EXCEPT !.tasks[i].state = "cancelled"]
           ELSE /\ limited => bg.borrowed < bg.max_workers
                /\ bg' = [bg EXCEPT !.tasks[i].state = "running",
                                    !.tasks[i].runs = @ + 1,
                                    !.borrowed = IF limited THEN @ + 1 ELSE @]
        /\ UNCHANGED <<ContainerVars, http, cfg>>

\* The body of task i ends, by returning or by raising.
TaskEnds(i) ==
    LET t == bg.tasks[i]
        g == bg.groups[t.group]
        outcome == safe_task(bg, t)
        limited == uses_limiter(bg, t) /\ bg.borrowed > 0
    IN  /\ t.state = "running"
        /\ bg' = [bg EXCEPT
                    !.tasks[i].state = outcome,
                    !.borrowed = IF limited THEN @ - 1 ELSE @,
                    !.logged = IF outcome = "failed" THEN @ + 1 ELSE @,
                    !.groups[t.group] =
                        IF outcome = "raised"
                        THEN [g EXCEPT !.cancelled = TRUE,
                                       !.exceptions = @ + 1]
                        ELSE g]
        /\ UNCHANGED <<ContainerVars, http, cfg>>

\* A running coroutine of a cancelled group is cancelled at an await; a
\* function running in a worker thread is not interrupted.
TaskCancelled(i) ==
    LET t == bg.tasks[i]
        g == bg.groups[t.group]
        limited == uses_limiter(bg, t) /\ bg.borrowed > 0
    IN  /\ t.state = "running"
        /\ t.func.kind = "async"
        /\ g.cancelled
        /\ bg' = [bg EXCEPT !.tasks[i].state = "cancelled",
                            !.borrowed = IF limited THEN @ - 1 ELSE @]
        /\ UNCHANGED <<ContainerVars, http, cfg>>

\* The body of the block ends and __aexit__(None, None, None) is called.
BodyReturns ==
    /\ bg.ctx = "inside"
    /\ bg.pending = None
    /\ bg' = [bg EXCEPT !.ctx = "exiting"]
    /\ UNCHANGED <<ContainerVars, http, cfg>>

\* The body of the block raises and __aexit__ is called with the
\* exception: the locked variant hands it to the task group, which cancels
\* its tasks; the module variant hands the group (None, None, None).
BodyRaises ==
    /\ bg.ctx = "inside"
    /\ bg.pending = None
    /\ bg' = IF bg.variant = "locked" /\ bg.started /\ bg.task_group # 0
             THEN [bg EXCEPT !.ctx = "exiting", !.body_exc = TRUE,
                             !.groups[bg.task_group].cancelled = TRUE,
                             !.groups[bg.task_group].exceptions = @ + 1]
             ELSE [bg EXCEPT !.ctx = "exiting", !.body_exc = TRUE]
    /\ UNCHANGED <<ContainerVars, http, cfg>>

\* __aexit__ that does not wait for the tasks of its group.
aexit_nowait ==
    LET open == bg.started /\ bg.task_group # 0
        body == IF bg.body_exc THEN Some("ValueError") ELSE None
    IN  /\ bg.ctx = "exiting"
        /\ bg' = IF open
                 THEN [bg EXCEPT
                         !.ctx = "exited",
                         !.started = FALSE,
                         !.task_group = 0,
                         !.groups[bg.task_group].closed = TRUE,
                         !.raised =
                             IF bg.groups[bg.task_group].exceptions > 0
                             THEN Some("BaseExceptionGroup")
                             ELSE body]
                 ELSE [bg EXCEPT !.ctx = "exited", !.raised = body]
        /\ UNCHANGED <<ContainerVars, http, cfg>>

\* __aexit__ returns or raises: the task group's __aexit__ has waited for
\* its tasks and raises its exceptions as a group; otherwise an exception
\* of the body goes on to the caller.
aexit ==
    LET open == bg.started /\ bg.task_group # 0
        body == IF bg.body_exc THEN Some("ValueError") ELSE None
    IN  /\ bg.ctx = "exiting"
        /\ open => \A i \in 1..Len(bg.tasks) :
                       bg.tasks[i].group = bg.task_group
                           => bg.tasks[i].state \in Finished
        /\ bg' = IF open
                 THEN [bg EXCEPT
                         !.ctx = "exited",
                         !.started = FALSE,
                         !.task_group = 0,
                         !.groups[bg.task_group].closed = TRUE,
                         !.raised =
                             IF bg.groups[bg.task_group].exceptions > 0
                             THEN Some("BaseExceptionGroup")
                             ELSE body]
                 ELSE [bg EXCEPT !.ctx = "exited", !.raised = body]
        /\ UNCHANGED <<ContainerVars, http, cfg>>

\* A Background of either variant inside its block; the module variant
\* has no background_enable.
InitBackground ==
    /\ InitContainer
    /\ http = NewHttp
    /\ bg \in {NewBackground(variant, enable) :
                 variant \in Variants, enable \in BOOLEAN} \
              {NewBackground("module", FALSE)}
    /\ cfg = NewConfig

NextBackground ==
    \/ \E func \in TaskFuncs : add(func)
    \/ LockAcquired
    \/ \E i \in 1..Len(bg.tasks) : TaskStarts(i)
    \/ \E i \in 1..Len(bg.tasks) : TaskEnds(i)
    \/ \E i \in 1..Len(bg.tasks) : TaskCancelled(i)
    \/ BodyReturns
    \/ BodyRaises
    \/ aexit

SpecBackground == InitBackground /\ [][NextBackground]_vars

\* C28: an exception raised by a background task is logged and contained:
\* add raises nothing but BackgroundDisabledError, and as long as the body
\* of the block raised nothing, no task group is cancelled or holds an
\* exception, no task is cancelled, every failed task was logged, and the
\* exit raises nothing and finds every task run to completion.
C28_TaskErrorsContained ==
    /\ bg.add_raised # None => ~bg.enable
    /\ ~bg.body_exc =>
         /\ \A i \in 1..Len(bg.tasks) :
                bg.tasks[i].state \notin {"cancelled", "raised"}
         /\ \A g \in 1..Len(bg.groups) :
                ~bg.groups[g].cancelled /\ bg.groups[g].exceptions = 0
         /\ bg.logged = Cardinality({i \in 1..Len(bg.tasks) :
                                        bg.tasks[i].func.fails
                                        /\ bg.tasks[i].state \in Finished})
         /\ bg.ctx = "exited" =>
                /\ bg.raised = None
                /\ \A i \in 1..Len(bg.tasks) :
                       bg.tasks[i].runs = 1
                       /\ bg.tasks[i].state \in {"done", "failed"}

upper(key) == [key EXCEPT !.case = "upper"]

normalize_key(key, case_sensitive) ==
    IF case_sensitive THEN key ELSE [key EXCEPT !.case = "lower"]

RECURSIVE first_match(_, _, _, _)
first_match(config_data, i, normalized_attr, case_sensitive) ==
    IF i > Len(config_data) THEN PyNone
    ELSE IF normalize_key(config_data[i].key, case_sensitive) = normalized_attr
    THEN config_data[i].value
    ELSE first_match(config_data, i + 1, normalized_attr, case_sensitive)

match_config_key(attr_name, config_data, case_sensitive) ==
    IF case_sensitive
    THEN IF \E i \in 1..Len(config_data) : config_data[i].key = attr_name
         THEN config_data[CHOOSE i \in 1..Len(config_data) :
                              config_data[i].key = attr_name].value
         ELSE PyNone
    ELSE first_match(config_data, 1,
                     normalize_key(attr_name, case_sensitive), case_sensitive)

\* Optional[X] has origin typing.Union; for "X | None" the origin is
\* types.UnionType, which typing does not export.
is_optional(type_hint) == type_hint.form = "Optional"

\* int() accepts the strings "3000", "8080" and "9000" of the values used.
convert_primitive(value, target_type) ==
    IF value.type = target_type THEN value
    ELSE IF /\ value.type = "str"
            /\ target_type = "int"
            /\ value.v \in {"3000", "8080", "9000"}
    THEN PyInt(value.v)
    ELSE value

\* _TypeConverter.convert for the hints int, str, Optional[..] and
\* ".. | None": only a plain int or str hint reaches a conversion.
convert(value, target_type) ==
    IF value = PyNone THEN PyNone
    ELSE IF target_type.form = "plain"
    THEN convert_primitive(value, target_type.base)
    ELSE value

\* _get_config_value that looks in the file before the environment.
get_config_value_file_first(c, attr_name, attr_type) ==
    LET file_value == IF c.config_data # <<>>
                      THEN match_config_key(attr_name, c.config_data,
                                            c.case_sensitive)
                      ELSE PyNone
        env_value == IF file_value = PyNone /\ c.env_override
                     THEN c.environ[upper(attr_name)] ELSE PyNone
        v2 == IF file_value # PyNone THEN file_value ELSE env_value
        s2 == IF file_value # PyNone THEN "file"
              ELSE IF env_value # PyNone THEN "env" ELSE "default"
        has_default == v2 = PyNone /\ c.default # None
        v3 == IF has_default THEN c.default[1] ELSE v2
        s3 == IF has_default THEN "default" ELSE s2
    IN  IF v3 = PyNone /\ ~is_optional(attr_type)
        THEN [value |-> PyNone, source |-> s3, warned |-> TRUE]
        ELSE [value |-> IF v3 # PyNone /\ s3 \in {"env", "file"}
                        THEN convert(v3, attr_type) ELSE v3,
              source |-> s3, warned |-> FALSE]

\* ConfigClass._get_config_value: the value, the source it came from and
\* whether the warning for a required field was issued.
get_config_value(c, attr_name, attr_type) ==
    LET env_value == IF c.env_override
                     THEN c.environ[upper(attr_name)] ELSE PyNone
        s1 == IF env_value # PyNone THEN "env" ELSE "default"
        file_value == IF env_value = PyNone /\ c.config_data # <<>>
                      THEN match_config_key(attr_name, c.config_data,
                                            c.case_sensitive)
                      ELSE PyNone
        v2 == IF file_value # PyNone THEN file_value ELSE env_value
        s2 == IF file_value # PyNone THEN "file" ELSE s1
        has_default == v2 = PyNone /\ c.default # None
        v3 == IF has_default THEN c.default[1] ELSE v2
        s3 == IF has_default THEN "default" ELSE s2
    IN  IF v3 = PyNone /\ ~is_optional(attr_type)
        THEN [value |-> PyNone, source |-> s3, warned |-> TRUE]
        ELSE [value |-> IF v3 # PyNone /\ s3 \in {"env", "file"}
                        THEN convert(v3, attr_type) ELSE v3,
              source |-> s3, warned |-> FALSE]

\* The dictionaries a configuration file can load to, in key order.
ConfigData ==
    {d \in UNION {[1..n -> [key : {Key("port", "lower"), Key("port", "upper")},
                             value : {PyNone, PyStr("8080"), PyStr("abc")}]] :
                     n \in 0..MaxFileKeys} :
        \A i, j \in 1..Len(d) : i # j => d[i].key # d[j].key}

\* os.environ[key] = value
setenv(key, value) ==
    /\ cfg.environ[key] # value
    /\ cfg' = [cfg EXCEPT !.environ[key] = value]
    /\ UNCHANGED <<ContainerVars, http, bg>>

\* os.environ.pop(key, None)
unsetenv(key) ==
    /\ cfg.environ[key] # PyNone
    /\ cfg' = [cfg EXCEPT !.environ[key] = PyNone]
    /\ UNCHANGED <<ContainerVars, http, bg>>

\* ConfigClass(): the field is set to _get_config_value(attr_name,
\* attr_type); environ records os.environ as the call read it.
ConfigClass ==
    LET r == get_config_value(cfg, cfg.attr_name, cfg.attr_type)
    IN  /\ cfg' = [cfg EXCEPT !.instance =
                      Some([value |-> r.value, source |-> r.source,
                            warned |-> r.warned, environ |-> cfg.environ])]
        /\ UNCHANGED <<ContainerVars, http, bg>>

\* The decorator has run for some class, file and arguments.
InitConfig ==
    /\ InitContainer
    /\ http = NewHttp
    /\ bg = NewBackground("locked", TRUE)
    /\ cfg \in {[NewConfig EXCEPT !.env_override = env_override,
                                  !.case_sensitive = case_sensitive,
                                  !.config_data = config_data,
                                  !.attr_name = attr_name,
                                  !.attr_type = attr_type,
                                  !.default = default] :
                   env_override \in BOOLEAN, case_sensitive \in BOOLEAN,
                   config_data \in ConfigData,
                   attr_name \in {Key("port", "lower"), Key("port", "title")},
                   attr_type \in {Hint("int", "plain"), Hint("str", "plain"),
                                  Hint("int", "Optional"), Hint("int", "union")},
                   default \in {None, Some(PyNone), Some(PyInt("3000"))}}

NextConfig ==
    \/ \E key \in EnvNames, value \in {PyStr("9000"), PyStr("")} :
           setenv(key, value)
    \/ \E key \in EnvNames : unsetenv(key)
    \/ ConfigClass

SpecConfig == InitConfig /\ [][NextConfig]_vars

\* C30: the value of a field follows a fixed precedence: with
\* env_override the environment variable named as the upper-cased field,
\* then the file value, then the class default; without env_override the
\* environment is ignored; a field with no value from any source and a
\* type that is not Optional is None and a warning was issued.
C30_Precedence ==
    cfg.instance # None =>
        LET r == cfg.instance[1]
            env == r.environ[upper(cfg.attr_name)]
            file == match_config_key(cfg.attr_name, cfg.config_data,
                                     cfg.case_sensitive)
            default == IF cfg.default = None THEN PyNone ELSE cfg.default[1]
        IN  /\ IF cfg.env_override /\ env # PyNone
               THEN r.source = "env" /\ r.value = convert(env, cfg.attr_type)
               ELSE IF file # PyNone
               THEN r.source = "file"
                    /\ r.value = convert(file, cfg.attr_type)
               ELSE IF default # PyNone
               THEN r.source = "default" /\ r.value = default
               ELSE /\ r.value = PyNone
                    /\ cfg.attr_type.form = "plain" => r.warned
            /\ r.warned => r.value = PyNone

\* An instance built while the environment, the file and the class all
\* had a value for the field: the environment's value was taken.
C30_Witness ==
    /\ cfg.instance # None
    /\ cfg.env_override
    /\ cfg.instance[1].environ[upper(cfg.attr_name)] # PyNone
    /\ match_config_key(cfg.attr_name, cfg.config_data,
                        cfg.case_sensitive) # PyNone
    /\ cfg.default \notin {None, Some(PyNone)}
    /\ cfg.instance[1].source = "env"
    /\ cfg.instance[1].value = PyInt("9000")

(***************************************************************************)
(* C31: Container.resolve terminates: within one call chain no key is      *)
(* pushed while it is already on the stack, so the stack of a call chain   *)
(* is never longer than the number of registered keys plus one.  Stated on *)
(* the list of the main context and on the list of every chain: it holds   *)
(* at most one entry per registered key, and one more, which is its last   *)
(* entry (the key appended when a cycle is detected).                      *)
(***************************************************************************)
C31_BoundedNesting ==
    \A stack \in {IF resolution_stack = None THEN <<>> ELSE resolution_stack[1]}
                 \cup {chains[c].own : c \in Chains} :
        /\ Len(stack) <= Cardinality(RegKeys(container_by_type)) + 1
        /\ \A i, j \in 1..Len(stack) :
              (i < j /\ stack[i] = stack[j]) => j = Len(stack)

(***************************************************************************)
(* The application after start-up (the registry of InitChains), resolving  *)
(* from one call chain between aliasing, snapshot, restore and reset.      *)
(***************************************************************************)
NextRunning ==
    \/ \E k \in Keys, raising \in Raising : Resolve(k, raising)
    \/ \E a \in Keys : \E t \in Keys \ {a} : alias_provider(a, t)
    \/ reset
    \/ snapshot
    \/ restore
    \/ \E i \in 1..Len(insts) : Mutate(i)

SpecRunning == InitChains /\ [][NextRunning]_vars

(***************************************************************************)
(* C32: the outcome of Container.resolve(K) depends only on the registry   *)
(* and the provider caches, not on earlier resolve calls of the call       *)
(* chain: every top-level resolve returns the instance, or raises the kind *)
(* of error, that the same call gives on a call chain that has resolved    *)
(* nothing before.  So a registered key whose dependency graph is acyclic  *)
(* resolves after an earlier resolve failed, also when the key was on the  *)
(* failed path.                                                            *)
(***************************************************************************)
C32_OutcomeFromRegistry ==
    [][ last'.op = "resolve"
        => \E raising \in Raising :
              LET fresh == resolve(last'.key, [State EXCEPT !.stack = None],
                                   raising).out
              IN  fresh.kind = last'.kind /\ fresh.inst = last'.inst ]_vars

(***************************************************************************)
(* A test run under the clear_container fixture: the classes were          *)
(* registered at import, nothing was resolved yet, and the fixture has     *)
(* taken S = Container.snapshot(); the test resolves, mutates instances    *)
(* and changes registrations, the fixture calls Container.restore(S), and  *)
(* the next test goes on from there.                                       *)
(***************************************************************************)
InitFixture ==
    /\ \E scope \in Scope :
          provs = << NewProvider(scope, "ServiceA", <<>>),
                     NewProvider(scope, "ServiceB", <<"ServiceA">>),
                     NewProvider(scope, "ServiceA", <<"ServiceB">>),
                     NewProvider(scope, "Config", <<>>) >>
    /\ container_by_type = << [key |-> "ServiceA", pid |-> 3],
                              [key |-> "ServiceB", pid |-> 2],
                              [key |-> "Config", pid |-> 4] >>
    /\ saved = Some(container_by_type)
    /\ resolution_stack = None
    /\ insts = <<>>
    /\ aliases = {}
    /\ last = Observed("snapshot", "", Ok(NoInstance), 0, None, FALSE)
    /\ ops = 0
    /\ restoring = None
    /\ chains = [c \in Chains |-> NewChain]
    /\ wrapped = <<>>
    /\ blocks = <<>>
    /\ http = NewHttp
    /\ bg = NewBackground("locked", TRUE)
    /\ cfg = NewConfig

NextFixture ==
    \/ \E k \in Keys, raising \in Raising : Resolve(k, raising)
    \/ \E i \in 1..Len(insts) : Mutate(i)
    \/ \E a \in Keys : \E t \in Keys \ {a} : alias_provider(a, t)
    \/ reset
    \/ restore

SpecFixture == InitFixture /\ [][NextFixture]_vars

(***************************************************************************)
(* C33: snapshot/restore isolate instance state: no instance existed when  *)
(* S was taken, so a resolve that follows restore(S) and returns an        *)
(* instance of a Singleton key of S returns one constructed by that very   *)
(* call, on which nothing was mutated.                                     *)
(***************************************************************************)
C33_RestoreIsolatesInstances ==
    [][ ( /\ last.op = "restore"
          /\ last'.op = "resolve"
          /\ last'.kind = "ok"
          /\ provs[ProviderOf(last'.key)].scope = "singleton" )
        => /\ last'.inst > Len(insts)
           /\ insts'[last'.inst].counter = 0 ]_vars

(***************************************************************************)
(* C34: an alias is bound to the provider object its target had when       *)
(* alias_provider was called.  A successful alias_provider(A, B) binds A   *)
(* to the provider B has at that moment and changes no other entry, B's    *)
(* included; a registration changes the entry of its own key only, so the  *)
(* keys that shared the overwritten provider keep it; neither changes an   *)
(* existing provider object; and every successful resolve returns an       *)
(* instance built by the provider its key is bound to.                     *)
(***************************************************************************)
C34_AliasKeepsProvider ==
    [][ /\ ( last'.op = "alias" /\ last'.kind = "ok" )
           => /\ Lookup(container_by_type', last'.key)
                    = Lookup(container_by_type, last'.type)
              /\ \A k \in Keys \ {last'.key} :
                    Lookup(container_by_type', k) = Lookup(container_by_type, k)
              /\ provs' = provs
        /\ last'.op = "register"
           => /\ \A k \in Keys \ {last'.key} :
                    Lookup(container_by_type', k) = Lookup(container_by_type, k)
              /\ SubSeq(provs', 1, Len(provs)) = provs
        /\ ( last'.op = "resolve" /\ last'.kind = "ok" )
           => insts'[last'.inst].by = ProviderOf(last'.key) ]_vars

\* The alias key was resolved after its target was registered again: the
\* instance is of the target's class and built by the provider the alias
\* kept, while the target key is bound to another provider of that class.
C34_Witness ==
    /\ last.op = "resolve"
    /\ last.kind = "ok"
    /\ insts[last.inst].cls # last.key
    /\ insts[last.inst].by = ProviderOf(last.key)
    /\ in_provider(container_by_type, insts[last.inst].cls)
    /\ ProviderOf(insts[last.inst].cls) # ProviderOf(last.key)
    /\ provs[ProviderOf(insts[last.inst].cls)].target = insts[last.inst].cls

(***************************************************************************)
(* Threads that go on after a call returned: the caller has received the   *)
(* outcome of its top-level resolve and may issue another one.             *)
(***************************************************************************)
ChainAgain(c) ==
    /\ chains[c].live
    /\ chains[c].frames = <<>>
    /\ chains[c].out # None
    /\ chains' = [chains EXCEPT ![c].out = None]
    /\ UNCHANGED <<container_by_type, resolution_stack, provs, insts, saved,
                   aliases, last, ops, restoring, wrapped, blocks, http, bg,
                   cfg>>

NextRace ==
    \/ \E k \in Keys : MainResolve(k)
    \/ \E c \in Chains : Spawn(c)
    \/ \E c \in Chains, k \in Keys : ChainResolve(c, k)
    \/ \E c \in Chains : ChainResolveDep(c)
    \/ \E c \in Chains : ChainConstruct(c)
    \/ \E c \in Chains : ChainFinally(c)
    \/ \E c \in Chains : ChainAgain(c)

SpecRace == InitChains /\ [][NextRace]_vars

\* Some call on provider p is between its entry and its return.
InFlight(p) ==
    \E c \in Chains : \E i \in 1..Len(chains[c].frames) : chains[c].frames[i].pid = p

(***************************************************************************)
(* C35: concurrent first resolves of a Singleton may run the constructor   *)
(* more than once, and the instance stored is the one constructed last.    *)
(* Once no call on the provider is in flight and it holds an instance, no  *)
(* step changes the stored instance or constructs another one, and every   *)
(* call that then enters the provider gets the stored instance.            *)
(***************************************************************************)
C35_SingletonSettles ==
    [][ \A p \in 1..Len(provs) :
           provs[p].scope = "singleton" =>
             /\ provs'[p].cache # NoInstance
                => /\ insts'[provs'[p].cache].by = p
                   /\ \A i \in BuiltBy(insts', p) : i <= provs'[p].cache
             /\ ( provs[p].cache # NoInstance /\ ~InFlight(p) )
                => /\ provs'[p].cache = provs[p].cache
                   /\ BuiltBy(insts', p) = BuiltBy(insts, p)
                   /\ \A c \in Chains :
                         \A i \in 1..Len(chains'[c].frames) :
                            chains'[c].frames[i].pid = p
                            => chains'[c].frames[i].ret = Some(Ok(provs[p].cache))
      ]_vars

\* Two threads raced on the first resolve of Config and each constructed
\* one; one of them got the instance that was discarded, and a call made
\* afterwards returned the stored one.
C35_Witness ==
    /\ resolution_stack = None
    /\ ops = 3
    /\ provs[4].scope = "singleton"
    /\ Cardinality(BuiltBy(insts, 4)) = 2
    /\ \A c \in Chains : /\ chains[c].live
                         /\ chains[c].own = <<>>
                         /\ chains[c].frames = <<>>
                         /\ chains[c].out # None
                         /\ chains[c].out[1].kind = "ok"
    /\ \E c \in Chains : chains[c].out[1].inst # provs[4].cache
    /\ \E c \in Chains : chains[c].out[1].inst = provs[4].cache

(***************************************************************************)
(* Concurrent callers of Background.add: tasks of one event loop that each *)
(* call bg.add(func) while the body of the block awaits them.  A call runs *)
(* when the event loop gives its task the turn.  In the locked variant the *)
(* enable check comes first and the call then waits for the lock, which    *)
(* anyio hands over in arrival order; TaskGroup.__aenter__ enters a cancel *)
(* scope and returns without suspending, so in both variants the check of  *)
(* _started, the creation of the group, the assignment of _started and     *)
(* start_soon happen in one turn.                                          *)
(***************************************************************************)
AddCalled(func) ==
    /\ bg.ctx = "inside"
    /\ bg.pending = None
    /\ bg.add_raised = None
    /\ Len(bg.tasks) + Len(bg.callers) < MaxTasks
    /\ bg' = IF bg.variant = "locked" /\ ~bg.enable
             THEN [bg EXCEPT !.add_raised = Some("BackgroundDisabledError")]
             ELSE [bg EXCEPT
                     !.callers = Append(@, func),
                     !.overlap = IF ~bg.started /\ Len(bg.callers) + 1 > @
                                 THEN Len(bg.callers) + 1 ELSE @]
    /\ UNCHANGED <<ContainerVars, http, cfg>>

\* The first caller in line gets its turn: the rest of add runs and add
\* returns.
AddRuns ==
    /\ bg.callers # <<>>
    /\ bg' = start_soon([bg EXCEPT !.callers = Tail(@)], Head(bg.callers))
    /\ UNCHANGED <<ContainerVars, http, cfg>>

\* The block ends once the add calls it awaits have returned.
NextAdds ==
    \/ \E func \in TaskFuncs : AddCalled(func)
    \/ AddRuns
    \/ \E i \in 1..Len(bg.tasks) : TaskStarts(i)
    \/ \E i \in 1..Len(bg.tasks) : TaskEnds(i)
    \/ \E i \in 1..Len(bg.tasks) : TaskCancelled(i)
    \/ bg.callers = <<>> /\ BodyReturns
    \/ bg.callers = <<>> /\ BodyRaises
    \/ aexit

SpecAdds == InitBackground /\ [][NextAdds]_vars

(***************************************************************************)
(* C36: in the locked Background any number of concurrently running add    *)
(* calls on a Background that has not started create and enter exactly one *)
(* task group, every one of them schedules its task on that group, and     *)
(* _started is true only when _task_group is set.                          *)
(***************************************************************************)
C36_OneGroupLocked ==
    bg.variant = "locked" =>
        /\ Len(bg.groups) <= 1
        /\ bg.tasks # <<>> => Len(bg.groups) = 1
        /\ \A i \in 1..Len(bg.tasks) : bg.tasks[i].group = 1
        /\ bg.started => bg.task_group = 1

\* Two add calls were waiting together before the locked Background had
\* started, and both have scheduled their task.
C36_Witness ==
    /\ bg.variant = "locked"
    /\ bg.overlap >= 2
    /\ bg.callers = <<>>
    /\ Len(bg.tasks) = 2
    /\ Len(bg.groups) = 1

SpecAddsFair ==
    /\ SpecAdds
    /\ WF_vars(AddRuns)
    /\ \A i \in 1..MaxTasks :
          /\ WF_vars(i <= Len(bg.tasks) /\ TaskStarts(i))
          /\ WF_vars(i <= Len(bg.tasks) /\ TaskEnds(i))

\* The task bodies executing now.
Executing == {i \in 1..Len(bg.tasks) : bg.tasks[i].state = "running"}

(***************************************************************************)
(* C38 as stated: in the locked Background at most background_max_workers  *)
(* task bodies execute at any moment, synchronous and asynchronous ones    *)
(* counted together, and every scheduled task eventually runs.             *)
(***************************************************************************)
C38_BoundedAndEveryTaskRuns ==
    /\ [](bg.variant = "locked" => Cardinality(Executing) <= bg.max_workers)
    /\ \A i \in 1..MaxTasks :
          ( /\ bg.variant = "locked"
            /\ i <= Len(bg.tasks)
            /\ bg.tasks[i].state = "scheduled" )
          ~> ( i <= Len(bg.tasks) /\ bg.tasks[i].runs > 0 )

(***************************************************************************)
(* C38, amended: in the locked Background at most background_max_workers   *)
(* task bodies execute at any moment, synchronous and asynchronous ones    *)
(* counted together, and every scheduled task eventually runs, also after  *)
(* another task failed, unless it is cancelled with its task group because *)
(* the body of the block raised.                                           *)
(***************************************************************************)
C38_BoundedAndRunsUnlessCancelled ==
    /\ [](bg.variant = "locked" =>
             /\ Cardinality(Executing) <= bg.max_workers
             /\ bg.borrowed = Cardinality(Executing)
             /\ \A i \in 1..Len(bg.tasks) :
                   bg.tasks[i].state = "cancelled" /\ bg.tasks[i].runs = 0
                   => bg.body_exc)
    /\ \A i \in 1..MaxTasks :
          ( /\ bg.variant = "locked"
            /\ i <= Len(bg.tasks)
            /\ bg.tasks[i].state = "scheduled" )
          ~> ( /\ i <= Len(bg.tasks)
               /\ bg.tasks[i].runs > 0 \/ bg.tasks[i].state = "cancelled" )

\* Every slot is taken, a synchronous and an asynchronous task are among
\* the tasks, and a task runs although another one has failed.
C38_Witness ==
    /\ bg.variant = "locked"
    /\ bg.borrowed = bg.max_workers
    /\ ~bg.body_exc
    /\ \E i, j \in 1..Len(bg.tasks) :
          /\ bg.tasks[i].state = "failed"
          /\ bg.tasks[j].state = "running"
          /\ bg.tasks[i].func.kind # bg.tasks[j].func.kind

(***************************************************************************)
(* Two callers sharing one Http instance on one event loop: req is the     *)
(* request of the caller that has the turn, other the request of the       *)
(* caller that waits.  The turn changes while the running caller awaits    *)
(* client.send or asyncio.sleep or has no request in flight;               *)
(* http.retry(...).get(...) is one expression without an await between     *)
(* retry and the first statements of _request.                             *)
(***************************************************************************)
Switch ==
    /\ ~http.retry_called
    /\ http' = [http EXCEPT !.req = http.other,
                            !.other = http.req,
                            !.requests = http.other_requests,
                            !.other_requests = http.requests]
    /\ UNCHANGED <<ContainerVars, bg, cfg>>

NextHttpPair ==
    \/ \E policy \in {p \in RetryPolicies : /\ p.attempts = MaxAttempts
                                              /\ p.when_exception = None} :
          retry(policy)
    \/ \E raising \in {"none", "on_exception"} :
          Request(raising # "none", raising)
    \/ \E status \in HttpStatuses : SendReturns(status)
    \/ SendRaises("ConnectTimeout")
    \/ SleepReturns
    \/ Switch

SpecHttpPair == InitHttp /\ [][NextHttpPair]_vars

(***************************************************************************)
(* C39: a retry policy applies to exactly one request.  A step that ends a *)
(* request with a Result leaves attempts, delay, backoff, when_status and  *)
(* when_exception at their defaults, and a request issued without retry()  *)
(* while no other request is in flight starts with no policy and is sent   *)
(* once at most.                                                           *)
(***************************************************************************)
C39_PolicyForOneRequest ==
    [][ /\ ( http'.req.pc = "done" /\ http'.req.result # None
             /\ http'.req # http.req /\ http'.req # http.other )
           => http' = clear_retry_config(http')
        /\ \A q \in {http'.req, http'.other} :
              ( http.enable /\ q.pc # "idle" /\ q.alone /\ ~q.configured )
              => /\ q.policy = NoPolicy
                 /\ Cardinality(Sent(q)) <= 1 ]_vars

(***************************************************************************)
(* C40: requests running concurrently on one Http instance do not          *)
(* interfere through the retry policy: a request issued without retry() is *)
(* sent once at most, and a request issued after retry(n, when_status = S) *)
(* that has finished with a response whose status is in S was sent n + 1   *)
(* times.                                                                  *)
(***************************************************************************)
C40_NoInterference ==
    \A q \in {http.req, http.other} :
        /\ ( http.enable /\ q.pc # "idle" /\ ~q.configured )
           => Cardinality(Sent(q)) <= 1
        /\ ( /\ q.pc = "done"
             /\ q.configured
             /\ q.policy.when_status # None
             /\ q.result # None
             /\ q.result[1].exception = None
             /\ q.result[1].status \in q.policy.when_status[1] )
           => Len(q.log) = q.policy.attempts[1] + 1

====
